---- MODULE Spec2Model ----
(***************************************************************************)
(* Model of the query and aggregation layer of                             *)
(* src/src/mcp-server/tools/intelligence-tools.ts (class IntelligenceTools *)
(* and the validation schemas that follow it in the same file).            *)
(*                                                                         *)
(* Strings that the code inspects character by character are sequences of  *)
(* one-character strings.  An optional value is Absent (<<>>) or           *)
(* Some(v) (<<v>>).  Confidence scores are kept in tenths (1.5 is 15).     *)
(***************************************************************************)
EXTENDS Integers, Sequences, FiniteSets, TLC

VARIABLES
  insights,    \* store table ai_insights: sequence of insight records
  sessions,    \* store table work_sessions: sequence of session records
  decisions,   \* store table project_decisions: sequence of decision records
  dbConcepts,  \* store table semantic_concepts, per database file
  dbPatterns,  \* store table developer_patterns, per database file
  dbBlueprint, \* store tables entry_points, key_directories, feature_map, per database file
  handles,     \* per server process: the store handles its request opened ad hoc
  leaked,      \* ad hoc handles still open when their request had completed
  defaultOpen, \* whether the process-wide store instance (this.database) is open
  pc,          \* per server process: position in the request being served
  args,        \* per server process: the arguments of the request being served
  loc,         \* per server process: the locals of the request being served
  res,         \* per server process: the outcome of the request just served
  pre,         \* per server process: the store as it was when the request started
  succeeded    \* number of contributeInsights calls that returned success=true

vars == <<insights, sessions, decisions, dbConcepts, dbPatterns, dbBlueprint, handles, leaked,
          defaultOpen, pc, args, loc, res, pre, succeeded>>

storeVars == <<insights, sessions, decisions>>
readVars == <<dbConcepts, dbPatterns, dbBlueprint, handles, leaked, defaultOpen>>

(***************************************************************************)
(* Bounds of the model.                                                    *)
(***************************************************************************)
MaxInsights == 2
MaxConcepts == 11

(***************************************************************************)
(* Optional values and small helpers.                                      *)
(***************************************************************************)
Absent == <<>>
Some(v) == <<v>>
IsPresent(o) == o # Absent
Val(o) == o[1]

Range(s) == {s[i] : i \in 1..Len(s)}

(***************************************************************************)
(* The server processes.  Each serves one request at a time; all run in    *)
(* the same working directory and share one persistent store.              *)
(***************************************************************************)
Procs == {"s1", "s2"}
Cwd == "projA"
OtherProject == "projB"

\* config.getDatabasePath(projectPath): one database file per project
DatabasePath(projectPath) == <<"in-memoria.db", projectPath>>
\* the file this.database is bound to: the server opened it in its directory
DefaultDb == DatabasePath(Cwd)
Dbs == {DatabasePath(Cwd), DatabasePath(OtherProject)}

\* loc.db is the store the request reads: 0 is this.database, h > 0 is the h-th
\* handle the request opened
NoLoc == [session |-> Absent, insightId |-> <<>>, di |-> 0, upserts |-> <<>>,
          created |-> 0, db |-> 0, shouldCloseDb |-> FALSE, readFrom |-> <<>>,
          concepts |-> <<>>, pending |-> Absent, calls |-> <<>>,
          prediction |-> Absent, routing |-> Absent, patterns |-> <<>>,
          files |-> Absent, entryPoints |-> <<>>, keyDirs |-> <<>>, features |-> Absent,
          faults |-> 0]
NoArgs == [op |-> "none"]
NoRes == [kind |-> "none"]
NoPre == [insights |-> <<>>, sessions |-> <<>>, decisions |-> <<>>]

(***************************************************************************)
(* contributeInsights: inputs.                                             *)
(***************************************************************************)
InsightKinds == {"bug_pattern", "optimization", "refactor_suggestion", "best_practice"}
ConfMin == 0
ConfMax == 10

ValidInsights ==
  { [type |-> "bug_pattern", content |-> "c1", confidence |-> 0,
     sourceAgent |-> Some("claude"), impactPrediction |-> Absent],
    [type |-> "best_practice", content |-> "c2", confidence |-> 10,
     sourceAgent |-> Some("copilot"), impactPrediction |-> Some("impact")] }

InvalidInsights ==
  { [type |-> "bug_pattern", content |-> "c1", confidence |-> 15,
     sourceAgent |-> Some("claude"), impactPrediction |-> Absent],
    [type |-> "optimization", content |-> "c1", confidence |-> -1,
     sourceAgent |-> Some("claude"), impactPrediction |-> Absent],
    [type |-> "style_nit", content |-> "c1", confidence |-> 5,
     sourceAgent |-> Some("claude"), impactPrediction |-> Absent],
    [type |-> "refactor_suggestion", content |-> "c1", confidence |-> 5,
     sourceAgent |-> Absent, impactPrediction |-> Absent],
    [type |-> "refactor_suggestion", content |-> "c1", confidence |-> 5,
     sourceAgent |-> Some(""), impactPrediction |-> Absent] }

FilesValues == {Absent, Some(<<>>), Some(<<"a.ts">>)}
FeatureValues == {Absent, Some(""), Some("login")}
TasksValues == {Absent, Some(<<"t1">>)}
\* a decisions map is the sequence of its entries, in insertion order
DecisionsValues == {Absent, Some(<< <<"k1", "v1">>, <<"k2", "v2">> >>)}

SessionUpdates ==
  [files : FilesValues, feature : FeatureValues, tasks : TasksValues,
   decisions : DecisionsValues]

ContribInputs ==
  [op : {"contribute"}, insight : ValidInsights \cup InvalidInsights,
   sessionUpdate : {Absent} \cup {Some(u) : u \in SessionUpdates}]

\* the inputs of the interleaved runs: updates that touch one field each
ConcUpdates ==
  { [files |-> Some(<<"a.ts">>), feature |-> Absent, tasks |-> Absent, decisions |-> Absent],
    [files |-> Absent, feature |-> Absent, tasks |-> Some(<<"t1">>), decisions |-> Absent],
    [files |-> Absent, feature |-> Some("login"), tasks |-> Absent,
     decisions |-> Some(<< <<"k1", "v1">>, <<"k2", "v2">> >>)] }

ConcInputs ==
  [op : {"contribute"},
   insight : {i \in ValidInsights : i.type = "bug_pattern"},
   sessionUpdate : {Some(u) : u \in ConcUpdates}]

(***************************************************************************)
(* contributeInsights: the pure parts of the code.                         *)
(***************************************************************************)
\* mutant: the schema without the upper bound on confidence
ContributeInsightsSchemaNoMax(i) ==
  /\ i.type \in InsightKinds
  /\ i.confidence >= ConfMin
  /\ IsPresent(i.sourceAgent)
  /\ Val(i.sourceAgent) # ""

\* ContributeInsightsSchema: enum kind, confidence in [0,1], non-empty agent
ContributeInsightsSchema(i) ==
  /\ i.type \in InsightKinds
  /\ i.confidence >= ConfMin
  /\ i.confidence <= ConfMax
  /\ IsPresent(i.sourceAgent)
  /\ Val(i.sourceAgent) # ""

\* `insight_${Date.now()}_${random}`: a fresh, non-empty identifier
NewInsightId(n) == <<"insight", n>>
EmptyId == <<>>

\* nanoid()
NanoId(n) == <<"nanoid", n>>

\* the record handed to insertAIInsight
InsightRecord(v, id) ==
  [insightId |-> id,
   insightType |-> v.type,
   insightContent |-> v.content,
   confidenceScore |-> v.confidence,
   sourceAgent |-> Val(v.sourceAgent),
   validationStatus |-> "pending",
   impactPrediction |-> IF IsPresent(v.impactPrediction) THEN Val(v.impactPrediction)
                        ELSE "{}"]

\* JavaScript truthiness of an optional array (every array is truthy)
TruthyList(o) == IsPresent(o)
\* JavaScript truthiness of an optional string (the empty string is falsy)
TruthyString(o) == IsPresent(o) /\ Val(o) # ""

\* x || [] for an optional array
OrEmptyList(o) == IF TruthyList(o) THEN Val(o) ELSE <<>>

\* mutant: the update's tasks are seeded as completed tasks too
NewSessionRecordTasksCompleted(u, id, projectPath) ==
  [id |-> id,
   projectPath |-> projectPath,
   currentFiles |-> OrEmptyList(u.files),
   completedTasks |-> OrEmptyList(u.tasks),
   pendingTasks |-> OrEmptyList(u.tasks),
   blockers |-> <<>>,
   lastFeature |-> u.feature]

\* the record handed to createWorkSession
NewSessionRecord(u, id, projectPath) ==
  [id |-> id,
   projectPath |-> projectPath,
   currentFiles |-> OrEmptyList(u.files),
   completedTasks |-> <<>>,
   pendingTasks |-> OrEmptyList(u.tasks),
   blockers |-> <<>>,
   lastFeature |-> u.feature]

\* mutant: the updates object names every field, empty where the update has none
BuildUpdatesEveryField(u) ==
  [currentFiles |-> IF TruthyList(u.files) THEN u.files ELSE Some(<<>>),
   lastFeature |-> IF TruthyString(u.feature) THEN u.feature ELSE Absent,
   pendingTasks |-> IF TruthyList(u.tasks) THEN u.tasks ELSE Some(<<>>)]

\* the updates object built from a session update
BuildUpdates(u) ==
  [currentFiles |-> IF TruthyList(u.files) THEN u.files ELSE Absent,
   lastFeature |-> IF TruthyString(u.feature) THEN u.feature ELSE Absent,
   pendingTasks |-> IF TruthyList(u.tasks) THEN u.tasks ELSE Absent]

\* Object.keys(updates).length > 0
HasUpdates(up) ==
  IsPresent(up.currentFiles) \/ IsPresent(up.lastFeature) \/ IsPresent(up.pendingTasks)

\* the record handed to upsertProjectDecision
DecisionRecord(entry, id, projectPath) ==
  [id |-> id, projectPath |-> projectPath,
   decisionKey |-> entry[1], decisionValue |-> entry[2]]

SuccessResult(id, sessionUpdated) ==
  [kind |-> "returned", success |-> TRUE, insightId |-> id,
   message |-> "Insight contributed successfully and pending validation",
   sessionUpdated |-> IF sessionUpdated THEN Some(TRUE) ELSE Absent]

FailureResult ==
  [kind |-> "returned", success |-> FALSE, insightId |-> EmptyId,
   message |-> "Failed to contribute insight: <error>",
   sessionUpdated |-> Absent]

ValidationError == [kind |-> "threw", error |-> "validation"]
StoreError == [kind |-> "threw", error |-> "store"]

(***************************************************************************)
(* The persistent store (SQLiteDatabase), as the layer uses it.            *)
(***************************************************************************)
InsertAIInsight(tbl, rec) == Append(tbl, rec)

\* the sessions of a project path
SessionsOf(tbl, projectPath) == {s \in Range(tbl) : s.projectPath = projectPath}

CreateWorkSession(tbl, rec) == Append(tbl, rec)

ApplyUpdates(s, up) ==
  [s EXCEPT !.currentFiles = IF IsPresent(up.currentFiles) THEN Val(up.currentFiles) ELSE @,
            !.lastFeature = IF IsPresent(up.lastFeature) THEN up.lastFeature ELSE @,
            !.pendingTasks = IF IsPresent(up.pendingTasks) THEN Val(up.pendingTasks) ELSE @]

UpdateWorkSession(tbl, id, up) ==
  [i \in 1..Len(tbl) |-> IF tbl[i].id = id THEN ApplyUpdates(tbl[i], up) ELSE tbl[i]]

\* insert, or replace the value of the decision with the same project and key
UpsertProjectDecision(tbl, d) ==
  IF \E i \in 1..Len(tbl) : tbl[i].projectPath = d.projectPath /\ tbl[i].decisionKey = d.decisionKey
  THEN [i \in 1..Len(tbl) |->
          IF tbl[i].projectPath = d.projectPath /\ tbl[i].decisionKey = d.decisionKey
          THEN [tbl[i] EXCEPT !.decisionValue = d.decisionValue]
          ELSE tbl[i]]
  ELSE Append(tbl, d)

(***************************************************************************)
(* contributeInsights and updateWorkSession, one step per store call.      *)
(* Every store call either succeeds or throws.                             *)
(***************************************************************************)
Snapshot == [insights |-> insights, sessions |-> sessions, decisions |-> decisions]

\* mutant: the catch block rethrows
ContribRethrow(p) ==
  /\ pc' = [pc EXCEPT ![p] = "done"]
  /\ res' = [res EXCEPT ![p] = StoreError]
  /\ UNCHANGED succeeded

\* the catch block of contributeInsights
ContribCatch(p) ==
  /\ pc' = [pc EXCEPT ![p] = "done"]
  /\ res' = [res EXCEPT ![p] = FailureResult]
  /\ UNCHANGED succeeded

\* AIInsightsSchema.parse(args), before the try block
ContribStart(p, a) ==
  /\ pc[p] = "idle"
  /\ args' = [args EXCEPT ![p] = a]
  /\ pre' = [pre EXCEPT ![p] = Snapshot]
  /\ loc' = [loc EXCEPT ![p] = NoLoc]
  /\ IF ContributeInsightsSchema(a.insight)
     THEN /\ pc' = [pc EXCEPT ![p] = "insert"]
          /\ res' = [res EXCEPT ![p] = NoRes]
     ELSE /\ pc' = [pc EXCEPT ![p] = "done"]
          /\ res' = [res EXCEPT ![p] = ValidationError]
  /\ UNCHANGED <<storeVars, readVars, succeeded>>

\* insertAIInsight, then the return when there is no session update
ContribInsert(p) ==
  /\ pc[p] = "insert"
  /\ \/ /\ ContribCatch(p)
        /\ UNCHANGED <<insights, loc>>
     \/ LET id == NewInsightId(Len(insights) + 1) IN
        /\ insights' = InsertAIInsight(insights, InsightRecord(args[p].insight, id))
        /\ loc' = [loc EXCEPT ![p].insightId = id]
        /\ IF IsPresent(args[p].sessionUpdate)
           THEN /\ pc' = [pc EXCEPT ![p] = "getSession"]
                /\ UNCHANGED <<res, succeeded>>
           ELSE /\ pc' = [pc EXCEPT ![p] = "done"]
                /\ res' = [res EXCEPT ![p] = SuccessResult(id, FALSE)]
                /\ succeeded' = succeeded + 1
  /\ UNCHANGED <<sessions, decisions, readVars, args, pre>>

\* let session = getCurrentWorkSession(projectPath)
UwsGetSession(p) ==
  /\ pc[p] = "getSession"
  /\ \/ /\ ContribCatch(p)
        /\ UNCHANGED loc
     \/ /\ SessionsOf(sessions, Cwd) = {}
        /\ loc' = [loc EXCEPT ![p].session = Absent]
        /\ pc' = [pc EXCEPT ![p] = "create"]
        /\ UNCHANGED <<res, succeeded>>
     \/ \E s \in SessionsOf(sessions, Cwd) :
          /\ loc' = [loc EXCEPT ![p].session = Some(s)]
          /\ pc' = [pc EXCEPT ![p] = "merge"]
          /\ UNCHANGED <<res, succeeded>>
  /\ UNCHANGED <<storeVars, readVars, args, pre>>

\* createWorkSession({...})
UwsCreate(p) ==
  /\ pc[p] = "create"
  /\ \/ /\ ContribCatch(p)
        /\ UNCHANGED <<sessions, loc>>
     \/ /\ sessions' = CreateWorkSession(sessions,
              NewSessionRecord(Val(args[p].sessionUpdate), NanoId(Len(sessions) + 1), Cwd))
        /\ loc' = [loc EXCEPT ![p].created = @ + 1]
        /\ pc' = [pc EXCEPT ![p] = "reget"]
        /\ UNCHANGED <<res, succeeded>>
  /\ UNCHANGED <<insights, decisions, readVars, args, pre>>

\* session = getCurrentWorkSession(projectPath), after the create
UwsReget(p) ==
  /\ pc[p] = "reget"
  /\ \/ /\ ContribCatch(p)
        /\ UNCHANGED loc
     \/ \E s \in SessionsOf(sessions, Cwd) :
          /\ loc' = [loc EXCEPT ![p].session = Some(s)]
          /\ pc' = [pc EXCEPT ![p] = "merge"]
          /\ UNCHANGED <<res, succeeded>>
  /\ UNCHANGED <<storeVars, readVars, args, pre>>

\* if (session) { build updates; if any, updateWorkSession(session.id, updates) }
UwsMerge(p) ==
  /\ pc[p] = "merge"
  /\ LET up == BuildUpdates(Val(args[p].sessionUpdate)) IN
     \/ /\ IsPresent(loc[p].session) /\ HasUpdates(up)
        /\ ContribCatch(p)
        /\ UNCHANGED <<sessions, loc>>
     \/ /\ IsPresent(loc[p].session) /\ HasUpdates(up)
        /\ sessions' = UpdateWorkSession(sessions, Val(loc[p].session).id, up)
        /\ pc' = [pc EXCEPT ![p] = "decide"]
        /\ loc' = [loc EXCEPT ![p].di = 1]
        /\ UNCHANGED <<res, succeeded>>
     \/ /\ ~(IsPresent(loc[p].session) /\ HasUpdates(up))
        /\ pc' = [pc EXCEPT ![p] = "decide"]
        /\ loc' = [loc EXCEPT ![p].di = 1]
        /\ UNCHANGED <<sessions, res, succeeded>>
  /\ UNCHANGED <<insights, decisions, readVars, args, pre>>

\* mutant: the decisions loop sits inside the branch that found field updates
DecisionEntriesWhenUpdated(u) ==
  IF IsPresent(u.decisions) /\ HasUpdates(BuildUpdates(u)) THEN Val(u.decisions) ELSE <<>>

\* the entries the decisions loop runs over (none when the map is absent)
DecisionEntries(u) == IF IsPresent(u.decisions) THEN Val(u.decisions) ELSE <<>>

\* one iteration of the loop: upsertProjectDecision({...})
UwsDecide(p) ==
  /\ pc[p] = "decide"
  /\ LET entries == DecisionEntries(Val(args[p].sessionUpdate)) IN
     /\ loc[p].di <= Len(entries)
     /\ \/ /\ ContribCatch(p)
           /\ UNCHANGED <<decisions, loc>>
        \/ /\ decisions' = UpsertProjectDecision(decisions,
                 DecisionRecord(entries[loc[p].di], NanoId(Len(decisions) + 1), Cwd))
           /\ loc' = [loc EXCEPT ![p].di = @ + 1,
                                 ![p].upserts = Append(@, entries[loc[p].di][1])]
           /\ UNCHANGED <<pc, res, succeeded>>
  /\ UNCHANGED <<insights, sessions, readVars, args, pre>>

\* updateWorkSession returns; sessionUpdated = true; return { success: true, ... }
ContribReturn(p) ==
  /\ pc[p] = "decide"
  /\ loc[p].di > Len(DecisionEntries(Val(args[p].sessionUpdate)))
  /\ pc' = [pc EXCEPT ![p] = "done"]
  /\ res' = [res EXCEPT ![p] = SuccessResult(loc[p].insightId, TRUE)]
  /\ succeeded' = succeeded + 1
  /\ UNCHANGED <<storeVars, readVars, args, loc, pre>>

\* the caller has the outcome; the process is free for the next request
Reply(p) ==
  /\ pc[p] = "done"
  /\ pc' = [pc EXCEPT ![p] = "idle"]
  /\ args' = [args EXCEPT ![p] = NoArgs]
  /\ loc' = [loc EXCEPT ![p] = NoLoc]
  /\ res' = [res EXCEPT ![p] = NoRes]
  /\ pre' = [pre EXCEPT ![p] = NoPre]
  /\ handles' = [handles EXCEPT ![p] = <<>>]
  /\ leaked' = leaked + Cardinality({h \in 1..Len(handles[p]) : handles[p][h].open})
  /\ UNCHANGED <<storeVars, dbConcepts, dbPatterns, dbBlueprint, defaultOpen, succeeded>>

(***************************************************************************)
(* getSemanticInsights: inputs and the pure parts of the code.             *)
(***************************************************************************)
DefaultLimit == 10
LimitMin == 1
LimitMax == 50

ConceptPool ==
  << [conceptName |-> <<"A", "b">>, conceptType |-> "function", confidenceScore |-> 9,
      relationships |-> << <<"calls", "r1">>, <<"uses", "r2">> >>, filePath |-> "a.ts",
      createdAt |-> 1, updatedAt |-> 2, changes |-> Some(<<"ch1", "ch2">>)],
     [conceptName |-> <<"x", "a", "B">>, conceptType |-> "class", confidenceScore |-> 5,
      relationships |-> <<>>, filePath |-> "b.ts",
      createdAt |-> 1, updatedAt |-> 1, changes |-> Absent],
     [conceptName |-> <<"c">>, conceptType |-> "function", confidenceScore |-> 10,
      relationships |-> << <<"calls", "r3">> >>, filePath |-> "c.ts",
      createdAt |-> 2, updatedAt |-> 3, changes |-> Some(<<>>)],
     [conceptName |-> <<"B", "c">>, conceptType |-> "class", confidenceScore |-> 0,
      relationships |-> <<>>, filePath |-> "a.ts",
      createdAt |-> 3, updatedAt |-> 3, changes |-> Some(<<"ch3">>)] >>

\* the first n concepts a learning run stored, cycling through the pool
ConceptList(n) == [i \in 1..n |-> ConceptPool[((i - 1) % Len(ConceptPool)) + 1]]

QueryValues == {Absent, Some(<<>>), Some(<<"a", "B">>), Some(<<"c">>), Some(<<"z">>)}
ConceptTypeValues == {Absent, Some(""), Some("function")}
LimitValues == {Absent, Some(-1), Some(0), Some(1), Some(2), Some(LimitMax), Some(LimitMax + 1)}
PathValues == {Absent, Some(""), Some(OtherProject)}

GsiInputs ==
  [op : {"insights"}, query : QueryValues, conceptType : ConceptTypeValues,
   limit : LimitValues, path : PathValues]

\* GetSemanticInsightsSchema: limit is optional, an integer in 1..50
GetSemanticInsightsSchema(a) ==
  IsPresent(a.limit) => (Val(a.limit) >= LimitMin /\ Val(a.limit) <= LimitMax)

\* String.prototype.toLowerCase, character by character
LowerChar(c) ==
  CASE c = "A" -> "a"
    [] c = "B" -> "b"
    [] c = "C" -> "c"
    [] c = "X" -> "x"
    [] c = "Z" -> "z"
    [] c = "E" -> "e"
    [] c = "F" -> "f"
    [] c = "I" -> "i"
    [] c = "P" -> "p"
    [] c = "R" -> "r"
    [] c = "V" -> "v"
    [] OTHER -> c

ToLowerCase(str) == [i \in 1..Len(str) |-> LowerChar(str[i])]

\* String.prototype.includes
Includes(str, q) ==
  \E i \in 0..(Len(str) - Len(q)) : SubSeq(str, i + 1, i + Len(q)) = q

\* JavaScript truthiness of an optional string kept as a character sequence
TruthyChars(o) == IsPresent(o) /\ Val(o) # <<>>

\* mutant: the query is compared without lowering either side
KeepConceptCaseSensitive(a, c) ==
  IF TruthyString(a.conceptType) /\ c.conceptType # Val(a.conceptType) THEN FALSE
  ELSE IF TruthyChars(a.query) /\ ~Includes(c.conceptName, Val(a.query)) THEN FALSE
  ELSE TRUE

\* the filter callback: true when the concept is retained
KeepConcept(a, c) ==
  IF TruthyString(a.conceptType) /\ c.conceptType # Val(a.conceptType) THEN FALSE
  ELSE IF TruthyChars(a.query)
          /\ ~Includes(ToLowerCase(c.conceptName), ToLowerCase(Val(a.query))) THEN FALSE
  ELSE TRUE

RECURSIVE FilterFrom(_, _, _)
FilterFrom(a, cs, i) ==
  IF i > Len(cs) THEN <<>>
  ELSE IF KeepConcept(a, cs[i]) THEN <<cs[i]>> \o FilterFrom(a, cs, i + 1)
       ELSE FilterFrom(a, cs, i + 1)

\* concepts.filter(...)
FilterConcepts(a, cs) == FilterFrom(a, cs, 1)

\* args.limit || 10
EffectiveLimit(a) ==
  IF IsPresent(a.limit) /\ Val(a.limit) # 0 THEN Val(a.limit) ELSE DefaultLimit

\* Array.prototype.slice(0, end)
SliceTo(s, end) ==
  LET e == IF end >= 0 THEN (IF end < Len(s) THEN end ELSE Len(s))
           ELSE (IF Len(s) + end > 0 THEN Len(s) + end ELSE 0)
  IN SubSeq(s, 1, e)

\* the insight record of one concept
SemanticInsight(c) ==
  [concept |-> c.conceptName,
   relationships |-> [i \in 1..Len(c.relationships) |-> c.relationships[i][1]],
   usage |-> [frequency |-> c.confidenceScore * 10, contexts |-> <<c.filePath>>],
   evolution |-> [firstSeen |-> c.createdAt, lastModified |-> c.updatedAt,
                  changeCount |-> IF IsPresent(c.changes) THEN Len(Val(c.changes)) ELSE 0]]

\* mutant: the list is truncated before it is filtered
InsightsResultSliceFirst(a, cs) ==
  LET filtered == FilterConcepts(a, SliceTo(cs, EffectiveLimit(a)))
  IN [kind |-> "returned",
      insights |-> [i \in 1..Len(filtered) |-> SemanticInsight(filtered[i])],
      totalAvailable |-> Len(filtered)]

\* the value getSemanticInsights returns for the concepts it read
InsightsResult(a, cs) ==
  LET filtered == FilterConcepts(a, cs)
      limited == SliceTo(filtered, EffectiveLimit(a))
  IN [kind |-> "returned",
      insights |-> [i \in 1..Len(limited) |-> SemanticInsight(limited[i])],
      totalAvailable |-> Len(filtered)]

(***************************************************************************)
(* The per-project store selector.                                         *)
(***************************************************************************)
\* PathValidator.validateAndWarnProjectPath: never fails; no path is the
\* working directory
ValidateAndWarnProjectPath(path) == IF TruthyString(path) THEN Val(path) ELSE Cwd

\* mutant: a dedicated store is opened whether or not a path is given
GsiAlwaysProjectDb(a) == TRUE

\* if (args.path) in getSemanticInsights
GsiUsesProjectDb(a) == TruthyString(a.path)

\* new SQLiteDatabase(file): the request's handles with a fresh open one added
OpenHandle(hs, file) == Append(hs, [db |-> file, open |-> TRUE, closes |-> 0])

\* db.close() on an ad hoc handle
CloseHandle(hs, h) == [hs EXCEPT ![h] = [@ EXCEPT !.open = FALSE, !.closes = @ + 1]]

\* the database file behind the store a request reads
DbFile(p) == IF loc[p].db = 0 THEN DefaultDb ELSE handles[p][loc[p].db].db

\* mutant: the finally block forgets the close
GsiFinallyNeverCloses(l) == FALSE

\* the finally block of getSemanticInsights: whether it closes db
GsiFinallyCloses(l) == l.shouldCloseDb

\* the finally block of getProjectBlueprint: whether it closes projectDatabase
BpFinallyCloses(l) == TRUE

\* db.close(), on this.database (db = 0) or on an ad hoc handle
CloseDb(p) ==
  IF loc[p].db = 0
  THEN /\ defaultOpen' = FALSE
       /\ UNCHANGED handles
  ELSE /\ handles' = [handles EXCEPT ![p] = CloseHandle(@, loc[p].db)]
       /\ UNCHANGED defaultOpen

(***************************************************************************)
(* getSemanticInsights, one step per store call.                           *)
(***************************************************************************)
\* the request is validated against its schema, then lines 253-262
GsiStart(p, a) ==
  /\ pc[p] = "idle"
  /\ args' = [args EXCEPT ![p] = a]
  /\ pre' = [pre EXCEPT ![p] = Snapshot]
  /\ IF ~GetSemanticInsightsSchema(a)
     THEN /\ pc' = [pc EXCEPT ![p] = "done"]
          /\ res' = [res EXCEPT ![p] = ValidationError]
          /\ loc' = [loc EXCEPT ![p] = NoLoc]
          /\ UNCHANGED handles
     ELSE /\ pc' = [pc EXCEPT ![p] = "gsiRead"]
          /\ res' = [res EXCEPT ![p] = NoRes]
          /\ IF GsiUsesProjectDb(a)
             THEN /\ handles' = [handles EXCEPT ![p] =
                       OpenHandle(@, DatabasePath(ValidateAndWarnProjectPath(a.path)))]
                  /\ loc' = [loc EXCEPT ![p] = [NoLoc EXCEPT !.db = Len(handles[p]) + 1,
                                                              !.shouldCloseDb = TRUE]]
             ELSE /\ loc' = [loc EXCEPT ![p] = NoLoc]
                  /\ UNCHANGED handles
  /\ UNCHANGED <<storeVars, dbConcepts, dbPatterns, dbBlueprint, leaked, defaultOpen, succeeded>>

\* const concepts = db.getSemanticConcepts()
GsiRead(p) ==
  /\ pc[p] = "gsiRead"
  /\ \/ /\ loc' = [loc EXCEPT ![p].pending = Some(StoreError)]
        /\ pc' = [pc EXCEPT ![p] = "gsiFinally"]
     \/ /\ loc' = [loc EXCEPT ![p].concepts = dbConcepts[DbFile(p)],
                              ![p].readFrom = <<loc[p].db>>]
        /\ pc' = [pc EXCEPT ![p] = "gsiShape"]
  /\ UNCHANGED <<storeVars, readVars, args, res, pre, succeeded>>

\* filter, slice, map; a fault here leaves through the finally block too
GsiShape(p) ==
  /\ pc[p] = "gsiShape"
  /\ \/ loc' = [loc EXCEPT ![p].pending = Some([kind |-> "threw", error |-> "shape"])]
     \/ loc' = [loc EXCEPT ![p].pending = Some(InsightsResult(args[p], loc[p].concepts))]
  /\ pc' = [pc EXCEPT ![p] = "gsiFinally"]
  /\ UNCHANGED <<storeVars, readVars, args, res, pre, succeeded>>

\* finally { if (shouldCloseDb) db.close() }, then the return or the throw
GsiFinally(p) ==
  /\ pc[p] = "gsiFinally"
  /\ IF GsiFinallyCloses(loc[p]) THEN CloseDb(p) ELSE UNCHANGED <<handles, defaultOpen>>
  /\ pc' = [pc EXCEPT ![p] = "done"]
  /\ res' = [res EXCEPT ![p] = Val(loc[p].pending)]
  /\ UNCHANGED <<storeVars, dbConcepts, dbPatterns, dbBlueprint, leaked, args, loc, pre, succeeded>>

(***************************************************************************)
(* getProjectBlueprint.                                                    *)
(***************************************************************************)
BpInputs ==
  [op : {"blueprint"}, path : PathValues,
   includeFeatureMap : {Absent, Some(TRUE), Some(FALSE)}]

\* framework values of stored entry points: none, empty, or a name
FrameworkValues ==
  {Absent, Some(<<>>), Some(<<"R", "e", "a", "c", "t">>),
   Some(<<"e", "x", "p", "r", "e", "s", "s">>),
   Some(<<"F", "a", "s", "t", "A", "P", "I">>), Some(<<"V", "u", "e">>)}

\* the entry point a learning run stored for a framework value
EntryPoint(fw) ==
  [entryType |-> IF fw \in {Absent, Some(<<"V", "u", "e">>)} THEN "web" ELSE "api",
   filePath |-> <<"main", fw>>, framework |-> fw]

\* stored entry points: up to two rows
EntryPointLists ==
  {<<>>} \cup {<<EntryPoint(f)>> : f \in FrameworkValues}
         \cup {<<EntryPoint(f), EntryPoint(g)>> : f \in FrameworkValues, g \in FrameworkValues}

KeyDirectory(type) == [directoryType |-> type, directoryPath |-> <<"src", type>>]

\* stored key directories: any of four types, in a fixed order
KeyDirLists ==
  { LET mvc == IF m THEN <<KeyDirectory("models"), KeyDirectory("views")>>
               ELSE IF v THEN <<KeyDirectory("views")>> ELSE <<>>
        comp == IF c THEN <<KeyDirectory("components")>> ELSE <<>>
        serv == IF sv THEN <<KeyDirectory("services")>> ELSE <<>>
    IN mvc \o comp \o serv : m \in BOOLEAN, v \in BOOLEAN, c \in BOOLEAN, sv \in BOOLEAN }

\* stored feature maps: none, two features, or a feature stored twice
FeatureLists ==
  { <<>>,
    << [featureName |-> "auth", primaryFiles |-> <<"auth.ts", "login.ts">>],
       [featureName |-> "billing", primaryFiles |-> <<>>] >>,
    << [featureName |-> "auth", primaryFiles |-> <<"old.ts">>],
       [featureName |-> "auth", primaryFiles |-> <<"auth.ts">>] >> }

\* rows.reduce((acc, row) => { acc[key] = value; return acc }, {}): on a key
\* stored twice the last row wins
ReduceToMap(rows, key, value) ==
  [k \in {rows[i][key] : i \in 1..Len(rows)} |->
     rows[CHOOSE i \in 1..Len(rows) :
            /\ rows[i][key] = k
            /\ \A j \in (i + 1)..Len(rows) : rows[j][key] # k][value]]

\* [...new Set(list)]: first occurrences, in order
RECURSIVE Unique(_)
Unique(s) ==
  IF s = <<>> THEN <<>>
  ELSE LET r == Unique(SubSeq(s, 1, Len(s) - 1))
       IN IF s[Len(s)] \in Range(r) THEN r ELSE Append(r, s[Len(s)])

\* list.filter(Boolean) on optional strings
RECURSIVE FilterBoolean(_)
FilterBoolean(s) ==
  IF s = <<>> THEN <<>>
  ELSE IF TruthyChars(s[1]) THEN <<s[1]>> \o FilterBoolean(Tail(s))
       ELSE FilterBoolean(Tail(s))

\* [...new Set(entryPoints.map(ep => ep.framework).filter(Boolean))]
TechStack(entryPoints) ==
  LET truthy == FilterBoolean([i \in 1..Len(entryPoints) |-> entryPoints[i].framework])
  IN Unique([i \in 1..Len(truthy) |-> Val(truthy[i])])

\* frameworks.some(f => f.toLowerCase().includes(word))
SomeFramework(frameworks, word) ==
  \E i \in 1..Len(frameworks) : Includes(ToLowerCase(frameworks[i]), word)

\* keyDirectories.some(d => d.directoryType === type)
SomeDirectory(keyDirectories, type) ==
  \E i \in 1..Len(keyDirectories) : keyDirectories[i].directoryType = type

\* mutant: the directory rules are consulted before the framework rules
InferArchitectureDirectoriesFirst(frameworks, keyDirectories) ==
  IF SomeDirectory(keyDirectories, "services") THEN "Service-Oriented"
  ELSE IF SomeDirectory(keyDirectories, "components") THEN "Component-Based"
  ELSE IF SomeFramework(frameworks, <<"r", "e", "a", "c", "t">>) THEN "Component-Based (React)"
  ELSE IF SomeFramework(frameworks, <<"e", "x", "p", "r", "e", "s", "s">>)
    THEN "REST API (Express)"
  ELSE IF SomeFramework(frameworks, <<"f", "a", "s", "t", "a", "p", "i">>)
    THEN "REST API (FastAPI)"
  ELSE IF SomeDirectory(keyDirectories, "models") /\ SomeDirectory(keyDirectories, "views")
    THEN "MVC Pattern"
  ELSE "Modular"

\* inferArchitectureFromBlueprint({frameworks, keyDirectories})
InferArchitectureFromBlueprint(frameworks, keyDirectories) ==
  IF SomeFramework(frameworks, <<"r", "e", "a", "c", "t">>) THEN "Component-Based (React)"
  ELSE IF SomeFramework(frameworks, <<"e", "x", "p", "r", "e", "s", "s">>)
    THEN "REST API (Express)"
  ELSE IF SomeFramework(frameworks, <<"f", "a", "s", "t", "a", "p", "i">>)
    THEN "REST API (FastAPI)"
  ELSE IF SomeDirectory(keyDirectories, "services") THEN "Service-Oriented"
  ELSE IF SomeDirectory(keyDirectories, "components") THEN "Component-Based"
  ELSE IF SomeDirectory(keyDirectories, "models") /\ SomeDirectory(keyDirectories, "views")
    THEN "MVC Pattern"
  ELSE "Modular"

\* if (args.includeFeatureMap)
IncludeFeatureMap(a) == a.includeFeatureMap = Some(TRUE)

\* mutant: the status counts only concepts as intelligence
LearningStatusConceptsOnly(nConcepts, nPatterns) ==
  LET hasIntelligence == nConcepts > 0
      isStale == FALSE
  IN [hasIntelligence |-> hasIntelligence,
      isStale |-> isStale,
      conceptsStored |-> nConcepts,
      patternsStored |-> nPatterns,
      recommendation |-> IF hasIntelligence /\ ~isStale THEN "ready"
                         ELSE "learning_recommended"]

\* the value getLearningStatus returns when both reads succeed
LearningStatus(nConcepts, nPatterns) ==
  LET hasIntelligence == nConcepts > 0 \/ nPatterns > 0
      isStale == FALSE
  IN [hasIntelligence |-> hasIntelligence,
      isStale |-> isStale,
      conceptsStored |-> nConcepts,
      patternsStored |-> nPatterns,
      recommendation |-> IF hasIntelligence /\ ~isStale THEN "ready"
                         ELSE "learning_recommended"]

\* the value of the catch block of getLearningStatus
LearningStatusFallback ==
  [hasIntelligence |-> FALSE, isStale |-> FALSE, conceptsStored |-> 0,
   patternsStored |-> 0, recommendation |-> "learning_needed"]

\* the featureMap of the returned object: spread in only when the map was
\* loaded and has a key
FeatureMapField(l) ==
  LET featureMap ==
        IF IsPresent(l.features)
        THEN Some(ReduceToMap(Val(l.features), "featureName", "primaryFiles"))
        ELSE Absent
  IN IF IsPresent(featureMap) /\ DOMAIN Val(featureMap) # {} THEN featureMap ELSE Absent

\* mutant: a count of the requests served so far leaks into the response
BlueprintResultCounted(l, learningStatus) ==
  [kind |-> "returned",
   techStack |-> TechStack(l.entryPoints),
   entryPoints |-> ReduceToMap(l.entryPoints, "entryType", "filePath"),
   keyDirectories |-> ReduceToMap(l.keyDirs, "directoryType", "directoryPath"),
   architecture |-> InferArchitectureFromBlueprint(TechStack(l.entryPoints), l.keyDirs),
   featureMap |-> FeatureMapField(l),
   learningStatus |-> [learningStatus EXCEPT
                         !.conceptsStored = @ + Cardinality({q \in Procs : handles[q] # <<>>})]]

\* the returned object, from the rows read (lines 606-648)
BlueprintResult(l, learningStatus) ==
  [kind |-> "returned",
   techStack |-> TechStack(l.entryPoints),
   entryPoints |-> ReduceToMap(l.entryPoints, "entryType", "filePath"),
   keyDirectories |-> ReduceToMap(l.keyDirs, "directoryType", "directoryPath"),
   architecture |-> InferArchitectureFromBlueprint(TechStack(l.entryPoints), l.keyDirs),
   featureMap |-> FeatureMapField(l),
   learningStatus |-> learningStatus]

\* lines 598-602: resolve the path, open the project database
BpStart(p, a) ==
  /\ pc[p] = "idle"
  /\ args' = [args EXCEPT ![p] = a]
  /\ pre' = [pre EXCEPT ![p] = Snapshot]
  /\ res' = [res EXCEPT ![p] = NoRes]
  /\ handles' = [handles EXCEPT ![p] =
        OpenHandle(@, DatabasePath(ValidateAndWarnProjectPath(a.path)))]
  /\ loc' = [loc EXCEPT ![p] = [NoLoc EXCEPT !.db = Len(handles[p]) + 1]]
  /\ pc' = [pc EXCEPT ![p] = "bpRead"]
  /\ UNCHANGED <<storeVars, dbConcepts, dbPatterns, dbBlueprint, leaked, defaultOpen, succeeded>>

\* getEntryPoints, getKeyDirectories and, if requested, getFeatureMaps: a throw
\* leaves through finally
BpRead(p) ==
  /\ pc[p] = "bpRead"
  /\ \/ /\ loc' = [loc EXCEPT ![p].pending = Some(StoreError), ![p].faults = @ + 1]
        /\ pc' = [pc EXCEPT ![p] = "bpFinally"]
     \/ /\ loc' = [loc EXCEPT ![p].readFrom = <<loc[p].db>>,
                              ![p].entryPoints = dbBlueprint[DbFile(p)].entryPoints,
                              ![p].keyDirs = dbBlueprint[DbFile(p)].keyDirectories,
                              ![p].features =
                                 IF IncludeFeatureMap(args[p])
                                 THEN Some(dbBlueprint[DbFile(p)].featureMaps)
                                 ELSE Absent]
        /\ pc' = [pc EXCEPT ![p] = "bpStatus"]
  /\ UNCHANGED <<storeVars, readVars, args, res, pre, succeeded>>

\* mutant: a failed status read is raised to the caller
BpStatusRethrows(p) ==
  /\ pc[p] = "bpStatus"
  /\ \/ loc' = [loc EXCEPT ![p].pending = Some(StoreError), ![p].faults = @ + 1]
     \/ loc' = [loc EXCEPT ![p].pending =
                  Some(BlueprintResult(loc[p], LearningStatus(Len(dbConcepts[DbFile(p)]),
                                                              Len(dbPatterns[DbFile(p)]))))]
  /\ pc' = [pc EXCEPT ![p] = "bpFinally"]
  /\ UNCHANGED <<storeVars, readVars, args, res, pre, succeeded>>

\* getLearningStatus(projectDatabase, projectPath): a failed read is caught
BpStatus(p) ==
  /\ pc[p] = "bpStatus"
  /\ \/ loc' = [loc EXCEPT ![p].pending = Some(BlueprintResult(loc[p], LearningStatusFallback)),
                           ![p].faults = @ + 1]
     \/ loc' = [loc EXCEPT ![p].pending =
                  Some(BlueprintResult(loc[p], LearningStatus(Len(dbConcepts[DbFile(p)]),
                                                              Len(dbPatterns[DbFile(p)]))))]
  /\ pc' = [pc EXCEPT ![p] = "bpFinally"]
  /\ UNCHANGED <<storeVars, readVars, args, res, pre, succeeded>>

\* finally { projectDatabase.close() }, then the return or the throw
BpFinally(p) ==
  /\ pc[p] = "bpFinally"
  /\ IF BpFinallyCloses(loc[p]) THEN CloseDb(p) ELSE UNCHANGED <<handles, defaultOpen>>
  /\ pc' = [pc EXCEPT ![p] = "done"]
  /\ res' = [res EXCEPT ![p] = Val(loc[p].pending)]
  /\ UNCHANGED <<storeVars, dbConcepts, dbPatterns, dbBlueprint, leaked, args, loc, pre, succeeded>>


(***************************************************************************)
(* predictCodingApproach.  The pattern engine is a collaborator: what it   *)
(* answers is chosen by the environment, and each call to it may throw.    *)
(***************************************************************************)
PredictInputs ==
  [op : {"predict"}, problemDescription : {"", "add login"},
   context : {Absent, Some("ctx")},
   includeFileRouting : {Absent, Some(TRUE), Some(FALSE)}]

\* PredictCodingApproachSchema: problemDescription is a non-empty string
PredictCodingApproachSchema(a) == a.problemDescription # ""

\* what patternEngine.predictApproach may answer
Predictions ==
  { [approach |-> "extend the auth service", confidence |-> 8, reasoning |-> "r1",
     patterns |-> <<"p1", "p2">>, complexity |-> "medium"],
    [approach |-> "", confidence |-> 0, reasoning |-> "", patterns |-> <<>>,
     complexity |-> "low"] }

\* the router's "no result"
Null == [isNull |-> TRUE]

\* what patternEngine.routeRequestToFiles may answer
Routings ==
  { Null,
    [intendedFeature |-> "auth", targetFiles |-> <<"auth.ts", "login.ts">>,
     workType |-> "feature", suggestedStartPoint |-> "auth.ts", confidence |-> 9,
     reasoning |-> "r2", extra |-> "dropped"],
    [intendedFeature |-> "", targetFiles |-> <<>>, workType |-> "", suggestedStartPoint |-> "",
     confidence |-> 0, reasoning |-> "", extra |-> ""] }

\* a collaborator call that failed; nothing in the handler catches it
EngineError == [kind |-> "threw", error |-> "engine"]

\* mutant: routing only when the toggle is truthy
IncludeRoutingIfTruthy(a) == a.includeFileRouting = Some(TRUE)

\* mutant: routing whatever the toggle says
IncludeRoutingAlways(a) == TRUE

\* const includeRouting = args.includeFileRouting !== false
IncludeRouting(a) == a.includeFileRouting # Some(FALSE)

\* the fields of a routing that are copied into result.fileRouting
FileRouting(r) ==
  [intendedFeature |-> r.intendedFeature, targetFiles |-> r.targetFiles,
   workType |-> r.workType, suggestedStartPoint |-> r.suggestedStartPoint,
   confidence |-> r.confidence, reasoning |-> r.reasoning]

\* the result object: the prediction, and fileRouting if (routing)
PredictResult(pr, routing) ==
  [kind |-> "returned", approach |-> pr.approach, confidence |-> pr.confidence,
   reasoning |-> pr.reasoning, suggestedPatterns |-> pr.patterns,
   estimatedComplexity |-> pr.complexity,
   fileRouting |-> IF IsPresent(routing) /\ Val(routing) # Null
                   THEN Some(FileRouting(Val(routing))) ELSE Absent]

\* the request is validated against its schema, then the handler starts
PcaStart(p, a) ==
  /\ pc[p] = "idle"
  /\ args' = [args EXCEPT ![p] = a]
  /\ pre' = [pre EXCEPT ![p] = Snapshot]
  /\ loc' = [loc EXCEPT ![p] = NoLoc]
  /\ IF ~PredictCodingApproachSchema(a)
     THEN /\ pc' = [pc EXCEPT ![p] = "done"]
          /\ res' = [res EXCEPT ![p] = ValidationError]
     ELSE /\ pc' = [pc EXCEPT ![p] = "pcaPredict"]
          /\ res' = [res EXCEPT ![p] = NoRes]
  /\ UNCHANGED <<storeVars, readVars, succeeded>>

\* mutant: a failed prediction is tried a second time
PcaPredictRetries(p) ==
  /\ pc[p] = "pcaPredict"
  /\ \/ /\ loc' = [loc EXCEPT ![p].calls = Append(@, "predictApproach")]
        /\ IF Len(loc[p].calls) = 0
           THEN UNCHANGED <<res, pc>>
           ELSE /\ res' = [res EXCEPT ![p] = EngineError]
                /\ pc' = [pc EXCEPT ![p] = "done"]
     \/ \E pr \in Predictions :
          /\ loc' = [loc EXCEPT ![p].calls = Append(@, "predictApproach"),
                                ![p].prediction = Some(pr)]
          /\ res' = res
          /\ pc' = [pc EXCEPT ![p] = IF IncludeRouting(args[p]) THEN "pcaRoute"
                                     ELSE "pcaReturn"]
  /\ UNCHANGED <<storeVars, readVars, args, pre, succeeded>>

\* mutant: the router is asked even though the prediction failed
PcaPredictRoutesAnyway(p) ==
  /\ pc[p] = "pcaPredict"
  /\ \/ /\ loc' = [loc EXCEPT ![p].calls =
                     IF IncludeRouting(args[p])
                     THEN @ \o <<"predictApproach", "routeRequestToFiles">>
                     ELSE Append(@, "predictApproach")]
        /\ res' = [res EXCEPT ![p] = EngineError]
        /\ pc' = [pc EXCEPT ![p] = "done"]
     \/ \E pr \in Predictions :
          /\ loc' = [loc EXCEPT ![p].calls = Append(@, "predictApproach"),
                                ![p].prediction = Some(pr)]
          /\ res' = res
          /\ pc' = [pc EXCEPT ![p] = IF IncludeRouting(args[p]) THEN "pcaRoute"
                                     ELSE "pcaReturn"]
  /\ UNCHANGED <<storeVars, readVars, args, pre, succeeded>>

\* await this.patternEngine.predictApproach(problemDescription, context || {})
PcaPredict(p) ==
  /\ pc[p] = "pcaPredict"
  /\ \/ /\ loc' = [loc EXCEPT ![p].calls = Append(@, "predictApproach")]
        /\ res' = [res EXCEPT ![p] = EngineError]
        /\ pc' = [pc EXCEPT ![p] = "done"]
     \/ \E pr \in Predictions :
          /\ loc' = [loc EXCEPT ![p].calls = Append(@, "predictApproach"),
                                ![p].prediction = Some(pr)]
          /\ res' = res
          /\ pc' = [pc EXCEPT ![p] = IF IncludeRouting(args[p]) THEN "pcaRoute"
                                     ELSE "pcaReturn"]
  /\ UNCHANGED <<storeVars, readVars, args, pre, succeeded>>

\* await this.patternEngine.routeRequestToFiles(problemDescription, process.cwd())
PcaRoute(p) ==
  /\ pc[p] = "pcaRoute"
  /\ \/ /\ loc' = [loc EXCEPT ![p].calls = Append(@, "routeRequestToFiles")]
        /\ res' = [res EXCEPT ![p] = EngineError]
        /\ pc' = [pc EXCEPT ![p] = "done"]
     \/ \E r \in Routings :
          /\ loc' = [loc EXCEPT ![p].calls = Append(@, "routeRequestToFiles"),
                                ![p].routing = Some(r)]
          /\ res' = res
          /\ pc' = [pc EXCEPT ![p] = "pcaReturn"]
  /\ UNCHANGED <<storeVars, readVars, args, pre, succeeded>>

\* return result
PcaReturn(p) ==
  /\ pc[p] = "pcaReturn"
  /\ res' = [res EXCEPT ![p] = PredictResult(Val(loc[p].prediction), loc[p].routing)]
  /\ pc' = [pc EXCEPT ![p] = "done"]
  /\ UNCHANGED <<storeVars, readVars, args, loc, pre, succeeded>>

(***************************************************************************)
(* getPatternRecommendations.                                              *)
(***************************************************************************)
MaxLength == 150
ExamplesKept == 2
PatternsFetched == 100

Ellipsis == <<".", ".", ".">>

CodeAlphabet == <<"a", "b", "c", "d", "e", "f", "g">>

\* a code snippet of n characters; k varies the text
Code(n, k) == [i \in 1..n |-> CodeAlphabet[((i * k) % Len(CodeAlphabet)) + 1]]

\* examples around the truncation threshold; one has no code at all
ExamplePool ==
  << [code |-> Some(Code(MaxLength, 1))],
     [code |-> Some(Code(MaxLength + 1, 2))],
     [code |-> Absent],
     [code |-> Some(Code(MaxLength - 1, 3))],
     [code |-> Some(Code(2 * MaxLength, 4))],
     [code |-> Some(<<>>)],
     [code |-> Some(Code(MaxLength + Len(Ellipsis) + 1, 5))] >>

\* patterns the ranker may return, with 0 to 4 examples
PatternPool ==
  { [patternId |-> "pat0", patternContent |-> [description |-> Absent], confidence |-> 3,
     examples |-> <<>>, frequency |-> 0],
    [patternId |-> "pat1", patternContent |-> [description |-> Some("")], confidence |-> 7,
     examples |-> SubSeq(ExamplePool, 2, 2), frequency |-> 1],
    [patternId |-> "pat2", patternContent |-> [description |-> Some("factory")],
     confidence |-> 9, examples |-> SubSeq(ExamplePool, 1, 3), frequency |-> 12],
    [patternId |-> "pat3", patternContent |-> [description |-> Some("singleton")],
     confidence |-> 10, examples |-> SubSeq(ExamplePool, 4, 7), frequency |-> 5] }

\* what patternEngine.findRelevantPatterns may answer: up to two ranked patterns
RankedLists ==
  {<<>>} \cup {<<x>> : x \in PatternPool} \cup {<<x, y>> : x \in PatternPool, y \in PatternPool}

\* what patternEngine.findFilesUsingPatterns may answer
FileLists == {<<>>, <<"auth.ts", "login.ts">>}

GprInputs ==
  [op : {"patterns"}, problemDescription : {"", "add login"},
   includeRelatedFiles : {Absent, Some(TRUE), Some(FALSE)}]

\* GetPatternRecommendationsSchema: problemDescription is a non-empty string
GetPatternRecommendationsSchema(a) == a.problemDescription # ""

\* mutant: a snippet of exactly maxLength characters is truncated too
TruncateCodeBelow(code, maxLength) ==
  IF Len(code) < maxLength THEN code
  ELSE SubSeq(code, 1, maxLength) \o Ellipsis

\* truncateCode(code, maxLength = 150)
TruncateCode(code, maxLength) ==
  IF Len(code) <= maxLength THEN code
  ELSE SubSeq(code, 1, maxLength) \o Ellipsis

\* ex.code || ''
CodeOrEmpty(ex) == IF TruthyChars(ex.code) THEN Val(ex.code) ELSE <<>>

\* pattern.examples.slice(0, 2).map(ex => truncateCode(ex.code || ''))
Examples(pattern) ==
  LET kept == SliceTo(pattern.examples, ExamplesKept)
  IN [i \in 1..Len(kept) |-> TruncateCode(CodeOrEmpty(kept[i]), MaxLength)]

\* one element of recommendations
Recommendation(pattern) ==
  [pattern |-> pattern.patternId,
   description |-> IF TruthyString(pattern.patternContent.description)
                   THEN Val(pattern.patternContent.description)
                   ELSE "Pattern recommendation",
   confidence |-> pattern.confidence,
   examples |-> Examples(pattern),
   reasoning |-> <<"Based on", pattern.frequency, "similar occurrences in your codebase">>]

\* mutant: related files are looked up whatever the flag says
IncludeRelatedAlways(a) == TRUE

\* if (args.includeRelatedFiles)
IncludeRelated(a) == a.includeRelatedFiles = Some(TRUE)

\* the result object; relatedFiles is set only inside the if
PatternsResult(relevantPatterns, files) ==
  [kind |-> "returned",
   recommendations |-> [i \in 1..Len(relevantPatterns) |-> Recommendation(relevantPatterns[i])],
   reasoning |-> <<"Found", Len(relevantPatterns),
                   "relevant patterns based on your coding history and current context">>,
   relatedFiles |-> files]

\* CodingContextSchema.parse(args): a request without a problem description throws
GprStart(p, a) ==
  /\ pc[p] = "idle"
  /\ args' = [args EXCEPT ![p] = a]
  /\ pre' = [pre EXCEPT ![p] = Snapshot]
  /\ loc' = [loc EXCEPT ![p] = NoLoc]
  /\ IF ~GetPatternRecommendationsSchema(a)
     THEN /\ pc' = [pc EXCEPT ![p] = "done"]
          /\ res' = [res EXCEPT ![p] = ValidationError]
     ELSE /\ pc' = [pc EXCEPT ![p] = "gprLoad"]
          /\ res' = [res EXCEPT ![p] = NoRes]
  /\ UNCHANGED <<storeVars, readVars, succeeded>>

\* this.database.getDeveloperPatterns(undefined, 100): the rows are not used
GprLoad(p) ==
  /\ pc[p] = "gprLoad"
  /\ \/ /\ res' = [res EXCEPT ![p] = StoreError]
        /\ pc' = [pc EXCEPT ![p] = "done"]
        /\ UNCHANGED loc
     \/ /\ loc' = [loc EXCEPT ![p].readFrom = <<0>>,
                              ![p].concepts = SliceTo(dbPatterns[DefaultDb], PatternsFetched)]
        /\ pc' = [pc EXCEPT ![p] = "gprRank"]
        /\ UNCHANGED res
  /\ UNCHANGED <<storeVars, readVars, args, pre, succeeded>>

\* await this.patternEngine.findRelevantPatterns(...)
GprRank(p) ==
  /\ pc[p] = "gprRank"
  /\ \/ /\ loc' = [loc EXCEPT ![p].calls = Append(@, "findRelevantPatterns")]
        /\ res' = [res EXCEPT ![p] = EngineError]
        /\ pc' = [pc EXCEPT ![p] = "done"]
     \/ \E ranked \in RankedLists :
          /\ loc' = [loc EXCEPT ![p].calls = Append(@, "findRelevantPatterns"),
                                ![p].patterns = ranked]
          /\ res' = res
          /\ pc' = [pc EXCEPT ![p] = IF IncludeRelated(args[p]) THEN "gprFiles"
                                     ELSE "gprReturn"]
  /\ UNCHANGED <<storeVars, readVars, args, pre, succeeded>>

\* await this.patternEngine.findFilesUsingPatterns(relevantPatterns, process.cwd())
GprFiles(p) ==
  /\ pc[p] = "gprFiles"
  /\ \/ /\ loc' = [loc EXCEPT ![p].calls = Append(@, "findFilesUsingPatterns")]
        /\ res' = [res EXCEPT ![p] = EngineError]
        /\ pc' = [pc EXCEPT ![p] = "done"]
     \/ \E files \in FileLists :
          /\ loc' = [loc EXCEPT ![p].calls = Append(@, "findFilesUsingPatterns"),
                                ![p].files = Some(files)]
          /\ res' = res
          /\ pc' = [pc EXCEPT ![p] = "gprReturn"]
  /\ UNCHANGED <<storeVars, readVars, args, pre, succeeded>>

\* return result
GprReturn(p) ==
  /\ pc[p] = "gprReturn"
  /\ res' = [res EXCEPT ![p] = PatternsResult(loc[p].patterns, loc[p].files)]
  /\ pc' = [pc EXCEPT ![p] = "done"]
  /\ UNCHANGED <<storeVars, readVars, args, loc, pre, succeeded>>

(***************************************************************************)
(* getDeveloperProfile.  Times are in hours.                               *)
(***************************************************************************)
HoursPerDay == 24
RecentDays == 30
ProfilePatternsFetched == 50
PreferredKept == 10
RecentFocusKept == 5
DecisionsFetched == 5

\* Date.now()
Now == 100 * HoursPerDay

ProfileInputs ==
  [op : {"profile"}, includeRecentActivity : {Absent, Some(TRUE), Some(FALSE)},
   includeWorkContext : {Absent, Some(TRUE), Some(FALSE)}]

\* how long ago the stored patterns were last seen: around the 30-day mark,
\* well inside it, well outside it, and one stamped by a clock that runs ahead
PatternAges ==
  <<0, RecentDays * HoursPerDay, RecentDays * HoursPerDay + 12,
    (RecentDays + 1) * HoursPerDay - 1, (RecentDays + 1) * HoursPerDay, 12,
    (RecentDays - 1) * HoursPerDay, (RecentDays + 10) * HoursPerDay, HoursPerDay, 0 - 1>>

\* the i-th row of developer_patterns, as insertDeveloperPattern stored it
StoredPattern(i) ==
  [patternId |-> <<"pat", i>>,
   patternType |-> <<"naming", "structural", "implementation">>[(i % 3) + 1],
   patternContent |-> [description |-> IF i % 2 = 0 THEN Some("d") ELSE Absent],
   frequency |-> i,
   examples |-> IF i % 4 = 0 THEN SubSeq(ExamplePool, 1, 3) ELSE <<>>,
   confidence |-> 5,
   lastSeen |-> Now - PatternAges[((i - 1) % Len(PatternAges)) + 1]]

\* getDeveloperPatterns(undefined, limit)
GetDeveloperPatterns(tbl, limit) == SliceTo(tbl, limit)

\* Math.floor((Date.now() - p.lastSeen.getTime()) / (1000 * 60 * 60 * 24))
DaysSinceLastSeen(pattern, now) == (now - pattern.lastSeen) \div HoursPerDay

\* the filter callback of recentPatterns
IsRecent(pattern, now) == DaysSinceLastSeen(pattern, now) <= RecentDays

\* patterns.filter(p => daysSinceLastSeen <= 30): the recent ones, in order
RecentPatterns(patterns, now) ==
  LET idx == {i \in 1..Len(patterns) : IsRecent(patterns[i], now)}
  IN [k \in 1..Cardinality(idx) |->
        patterns[CHOOSE i \in idx : Cardinality({j \in idx : j <= i}) = k]]

\* extractRecentFocus: patterns.map(p => p.type).slice(0, 5); p.type is
\* undefined (Absent) on a row that has no such property
ExtractRecentFocus(patterns) ==
  SliceTo([i \in 1..Len(patterns) |->
             IF "type" \in DOMAIN patterns[i] THEN Some(patterns[i].type) ELSE Absent],
          RecentFocusKept)

\* one element of preferredPatterns
PreferredPattern(pattern) ==
  [pattern |-> pattern.patternId,
   description |-> IF TruthyString(pattern.patternContent.description)
                   THEN Val(pattern.patternContent.description)
                   ELSE "Developer pattern",
   confidence |-> pattern.confidence,
   examples |-> Examples(pattern),
   reasoning |-> <<"Used", pattern.frequency, "times">>]

\* args.includeRecentActivity ? ... : []
IncludeRecent(a) == a.includeRecentActivity = Some(TRUE)

\* mutant: the work context is looked up whatever the flag says
IncludeWorkContextAlways(a) == TRUE

\* if (args.includeWorkContext)
IncludeWorkContext(a) == a.includeWorkContext = Some(TRUE)

\* the profile object before the work context is attached
Profile(a, patterns, now) ==
  LET kept == SliceTo(patterns, PreferredKept) IN
  [kind |-> "returned",
   preferredPatterns |-> [i \in 1..Len(kept) |-> PreferredPattern(kept[i])],
   codingStyle |-> [namingConventions |-> [functions |-> "camelCase", classes |-> "PascalCase",
                                           constants |-> "UPPER_CASE",
                                           variables |-> "camelCase"],
                    structuralPreferences |-> <<"modular_design", "single_responsibility",
                                                "dependency_injection">>,
                    testingApproach |-> "unit_testing_with_jest"],
   expertiseAreas |-> <<"typescript", "react", "node.js", "database_design">>,
   recentFocus |-> IF IncludeRecent(a) THEN ExtractRecentFocus(RecentPatterns(patterns, now))
                   ELSE <<>>,
   currentWork |-> Absent]

\* getProjectDecisions(projectPath, limit): the newest rows of the project first
GetProjectDecisions(tbl, projectPath, limit) ==
  LET idx == {i \in 1..Len(tbl) : tbl[i].projectPath = projectPath}
      n == IF Cardinality(idx) < limit THEN Cardinality(idx) ELSE limit
  IN [k \in 1..n |-> tbl[CHOOSE i \in idx : Cardinality({j \in idx : j >= i}) = k]]

\* profile.currentWork
CurrentWork(session, decs) ==
  [lastFeature |-> session.lastFeature,
   currentFiles |-> session.currentFiles,
   pendingTasks |-> session.pendingTasks,
   recentDecisions |-> [i \in 1..Len(decs) |->
                          [key |-> decs[i].decisionKey, value |-> decs[i].decisionValue,
                           reasoning |-> decs[i].reasoning]]]

GdpStart(p, a) ==
  /\ pc[p] = "idle"
  /\ args' = [args EXCEPT ![p] = a]
  /\ pre' = [pre EXCEPT ![p] = Snapshot]
  /\ loc' = [loc EXCEPT ![p] = NoLoc]
  /\ res' = [res EXCEPT ![p] = NoRes]
  /\ pc' = [pc EXCEPT ![p] = "gdpPatterns"]
  /\ UNCHANGED <<storeVars, readVars, succeeded>>

\* this.database.getDeveloperPatterns(undefined, 50), then the profile object
GdpPatterns(p) ==
  /\ pc[p] = "gdpPatterns"
  /\ \/ /\ res' = [res EXCEPT ![p] = StoreError]
        /\ pc' = [pc EXCEPT ![p] = "done"]
        /\ UNCHANGED loc
     \/ /\ loc' = [loc EXCEPT
                     ![p].readFrom = <<0>>,
                     ![p].patterns = GetDeveloperPatterns(dbPatterns[DefaultDb],
                                                          ProfilePatternsFetched),
                     ![p].pending =
                        Some(Profile(args[p],
                                     GetDeveloperPatterns(dbPatterns[DefaultDb],
                                                          ProfilePatternsFetched), Now))]
        /\ pc' = [pc EXCEPT ![p] = IF IncludeWorkContext(args[p]) THEN "gdpSession"
                                   ELSE "gdpReturn"]
        /\ UNCHANGED res
  /\ UNCHANGED <<storeVars, readVars, args, pre, succeeded>>

\* mutant: a profile request without a session creates one
GdpSessionCreates(p) ==
  /\ pc[p] = "gdpSession"
  /\ \/ /\ SessionsOf(sessions, Cwd) = {}
        /\ sessions' = CreateWorkSession(sessions,
              [id |-> NanoId(Len(sessions) + 1), projectPath |-> Cwd, currentFiles |-> <<>>,
               completedTasks |-> <<>>, pendingTasks |-> <<>>, blockers |-> <<>>,
               lastFeature |-> Absent])
        /\ pc' = [pc EXCEPT ![p] = "gdpReturn"]
        /\ UNCHANGED <<loc, res>>
     \/ \E s \in SessionsOf(sessions, Cwd) :
          /\ loc' = [loc EXCEPT ![p].session = Some(s)]
          /\ pc' = [pc EXCEPT ![p] = "gdpDecisions"]
          /\ UNCHANGED <<res, sessions>>
  /\ UNCHANGED <<insights, decisions, readVars, args, pre, succeeded>>

\* const session = this.database.getCurrentWorkSession(process.cwd())
GdpSession(p) ==
  /\ pc[p] = "gdpSession"
  /\ \/ /\ res' = [res EXCEPT ![p] = StoreError]
        /\ pc' = [pc EXCEPT ![p] = "done"]
        /\ UNCHANGED loc
     \/ /\ SessionsOf(sessions, Cwd) = {}
        /\ pc' = [pc EXCEPT ![p] = "gdpReturn"]
        /\ UNCHANGED <<loc, res>>
     \/ \E s \in SessionsOf(sessions, Cwd) :
          /\ loc' = [loc EXCEPT ![p].session = Some(s)]
          /\ pc' = [pc EXCEPT ![p] = "gdpDecisions"]
          /\ UNCHANGED res
  /\ UNCHANGED <<storeVars, readVars, args, pre, succeeded>>

\* this.database.getProjectDecisions(projectPath, 5); profile.currentWork = {...}
GdpDecisions(p) ==
  /\ pc[p] = "gdpDecisions"
  /\ \/ /\ res' = [res EXCEPT ![p] = StoreError]
        /\ pc' = [pc EXCEPT ![p] = "done"]
        /\ UNCHANGED loc
     \/ /\ loc' = [loc EXCEPT ![p].pending =
                     Some([Val(loc[p].pending) EXCEPT !.currentWork =
                             Some(CurrentWork(Val(loc[p].session),
                                              GetProjectDecisions(decisions, Cwd,
                                                                  DecisionsFetched)))])]
        /\ pc' = [pc EXCEPT ![p] = "gdpReturn"]
        /\ UNCHANGED res
  /\ UNCHANGED <<storeVars, readVars, args, pre, succeeded>>

\* return profile
GdpReturn(p) ==
  /\ pc[p] = "gdpReturn"
  /\ res' = [res EXCEPT ![p] = Val(loc[p].pending)]
  /\ pc' = [pc EXCEPT ![p] = "done"]
  /\ UNCHANGED <<storeVars, readVars, args, loc, pre, succeeded>>

(***************************************************************************)
(* validateInput.  A message is the sequence of the pieces it is built     *)
(* from, so that the tool name and the issues can be told apart.           *)
(***************************************************************************)
\* what validateInput may be called with: a schema of VALIDATION_SCHEMAS (or
\* undefined, for a tool the table does not list), an input and a tool name
ValidateInputs ==
  [op : {"validate"}, schema : {"ContributeInsightsSchema"},
   toolName : {"contribute_insights"},
   input : ValidInsights \cup InvalidInsights \cup
           { [type |-> "style_nit", content |-> "c1", confidence |-> 15,
              sourceAgent |-> Some(""), impactPrediction |-> Absent],
             [type |-> "optimization", content |-> "c1", confidence |-> 0 - 1,
              sourceAgent |-> Absent, impactPrediction |-> Absent] }]
  \cup
  [op : {"validate"}, schema : {"GetDeveloperProfileSchema"},
   toolName : {"get_developer_profile"},
   input : [includeRecentActivity : {Absent, Some(TRUE), Some(FALSE)}]]
  \cup
  [op : {"validate"}, schema : {"undefined"}, toolName : {"no_such_tool"},
   input : [includeRecentActivity : {Absent, Some(TRUE)}]]

\* schema.parse(input): the parsed value, a ZodError with one issue per failing
\* field in the order of the schema's fields, or the TypeError of calling
\* parse on undefined
SchemaParse(schema, input) ==
  IF schema = "ContributeInsightsSchema"
  THEN LET issues ==
             (IF input.type \in InsightKinds THEN <<>>
              ELSE << [path |-> <<"type">>, message |-> "Invalid enum value"] >>)
             \o
             (IF input.confidence < ConfMin
              THEN << [path |-> <<"confidence">>,
                       message |-> "Number must be greater than or equal to 0"] >>
              ELSE IF input.confidence > ConfMax
              THEN << [path |-> <<"confidence">>,
                       message |-> "Number must be less than or equal to 1"] >>
              ELSE <<>>)
             \o
             (IF ~IsPresent(input.sourceAgent)
              THEN << [path |-> <<"sourceAgent">>, message |-> "Required"] >>
              ELSE IF Val(input.sourceAgent) = ""
              THEN << [path |-> <<"sourceAgent">>,
                       message |-> "Source agent identifier is required"] >>
              ELSE <<>>)
       IN IF issues = <<>> THEN [kind |-> "value", value |-> input]
          ELSE [kind |-> "ZodError", issues |-> issues]
  ELSE IF schema = "GetDeveloperProfileSchema"
  THEN [kind |-> "value",
        value |-> [includeRecentActivity |->
                     IF IsPresent(input.includeRecentActivity)
                     THEN Val(input.includeRecentActivity) ELSE TRUE]]
  ELSE [kind |-> "Error",
        message |-> "Cannot read properties of undefined (reading 'parse')"]

\* Array.prototype.join: the parts, with the separator between them
RECURSIVE Join(_, _)
Join(parts, sep) ==
  IF Len(parts) = 0 THEN <<>>
  ELSE IF Len(parts) = 1 THEN parts[1]
  ELSE parts[1] \o <<sep>> \o Join(Tail(parts), sep)

\* mutant: only the first issue is reported
ValidateInputFirstIssue(schema, input, toolName) ==
  LET parsed == SchemaParse(schema, input) IN
  IF parsed.kind = "value" THEN [kind |-> "returned", value |-> parsed.value]
  ELSE IF parsed.kind = "ZodError"
  THEN [kind |-> "threw", error |-> "InvalidParams",
        message |-> <<"Invalid input for ", toolName, ": ">> \o
                    Join([j \in 1..Len(parsed.issues[1].path) |->
                            <<parsed.issues[1].path[j]>>], ".") \o
                    <<": ", parsed.issues[1].message>>]
  ELSE [kind |-> "threw", error |-> "InternalError",
        message |-> <<"Validation error for ", toolName, ": ", parsed.message>>]

\* validateInput(schema, input, toolName)
ValidateInput(schema, input, toolName) ==
  LET parsed == SchemaParse(schema, input) IN
  IF parsed.kind = "value" THEN [kind |-> "returned", value |-> parsed.value]
  ELSE IF parsed.kind = "ZodError"
  THEN LET errorMessages ==
             Join([k \in 1..Len(parsed.issues) |->
                     Join([j \in 1..Len(parsed.issues[k].path) |->
                             <<parsed.issues[k].path[j]>>], ".")
                     \o <<": ", parsed.issues[k].message>>], ", ")
       IN [kind |-> "threw", error |-> "InvalidParams",
           message |-> <<"Invalid input for ", toolName, ": ">> \o errorMessages]
  ELSE [kind |-> "threw", error |-> "InternalError",
        message |-> <<"Validation error for ", toolName, ": ", parsed.message>>]

\* one call of validateInput
Validate(p, a) ==
  /\ pc[p] = "idle"
  /\ args' = [args EXCEPT ![p] = a]
  /\ pre' = [pre EXCEPT ![p] = Snapshot]
  /\ loc' = [loc EXCEPT ![p] = NoLoc]
  /\ res' = [res EXCEPT ![p] = ValidateInput(a.schema, a.input, a.toolName)]
  /\ pc' = [pc EXCEPT ![p] = "done"]
  /\ UNCHANGED <<storeVars, readVars, succeeded>>

(***************************************************************************)
(* Initial states and specifications.                                      *)
(***************************************************************************)
\* a session of another project, left by an earlier run
ForeignSession ==
  [id |-> NanoId(0), projectPath |-> OtherProject, currentFiles |-> <<"z.ts">>,
   completedTasks |-> <<"old">>, pendingTasks |-> <<>>, blockers |-> <<>>,
   lastFeature |-> Some("billing")]

\* the blueprint tables of a project a learning run has analysed
LearnedBlueprint ==
  [entryPoints |-> <<EntryPoint(Some(<<"R", "e", "a", "c", "t">>))>>,
   keyDirectories |-> <<KeyDirectory("services")>>,
   featureMaps |-> <<[featureName |-> "auth", primaryFiles |-> <<"auth.ts">>]>>]

InitProcs ==
  /\ pc = [p \in Procs |-> "idle"]
  /\ args = [p \in Procs |-> NoArgs]
  /\ loc = [p \in Procs |-> NoLoc]
  /\ res = [p \in Procs |-> NoRes]
  /\ pre = [p \in Procs |-> NoPre]
  /\ handles = [p \in Procs |-> <<>>]
  /\ leaked = 0
  /\ defaultOpen = TRUE
  /\ succeeded = 0

Init ==
  /\ insights = <<>>
  /\ sessions = <<ForeignSession>>
  /\ decisions = <<>>
  /\ dbConcepts = [d \in Dbs |-> <<>>]
  /\ dbPatterns = [d \in Dbs |-> <<>>]
  /\ dbBlueprint = [d \in Dbs |-> LearnedBlueprint]
  /\ InitProcs

ContribSteps(p) ==
  \/ ContribInsert(p)
  \/ UwsGetSession(p)
  \/ UwsCreate(p)
  \/ UwsReget(p)
  \/ UwsMerge(p)
  \/ UwsDecide(p)
  \/ ContribReturn(p)
  \/ Reply(p)

\* one server process, one request at a time
Next ==
  \/ /\ Len(insights) < MaxInsights
     /\ \E a \in ContribInputs : ContribStart("s1", a)
  \/ ContribSteps("s1")

Spec == Init /\ [][Next]_vars

\* several server processes on one store, requests interleaved
NextConc ==
  \E p \in Procs :
    \/ /\ Len(insights) < Cardinality(Procs)
       /\ \E a \in ConcInputs : ContribStart(p, a)
    \/ ContribSteps(p)

SpecConc == Init /\ [][NextConc]_vars

\* the read operations, on a store a learning run has filled
InitRead ==
  /\ insights = <<>>
  /\ sessions = <<ForeignSession>>
  /\ decisions = <<>>
  /\ \E n \in 0..MaxConcepts, m \in {0, 3} :
       dbConcepts = [d \in Dbs |-> IF d = DefaultDb THEN ConceptList(n) ELSE ConceptList(m)]
  /\ dbPatterns \in {[d \in Dbs |-> <<>>], [d \in Dbs |-> <<"p1">>]}
  /\ dbBlueprint = [d \in Dbs |-> LearnedBlueprint]
  /\ InitProcs

NextRead ==
  \/ \E a \in GsiInputs : GsiStart("s1", a)
  \/ GsiRead("s1")
  \/ GsiShape("s1")
  \/ GsiFinally("s1")
  \/ \E a \in BpInputs : BpStart("s1", a)
  \/ BpRead("s1")
  \/ BpStatus("s1")
  \/ BpFinally("s1")
  \/ Reply("s1")

SpecRead == InitRead /\ [][NextRead]_vars

\* the operations that delegate to the pattern engine
NextEngine ==
  \/ \E a \in PredictInputs : PcaStart("s1", a)
  \/ PcaPredict("s1")
  \/ PcaRoute("s1")
  \/ PcaReturn("s1")
  \/ \E a \in GprInputs : GprStart("s1", a)
  \/ GprLoad("s1")
  \/ GprRank("s1")
  \/ GprFiles("s1")
  \/ GprReturn("s1")
  \/ Reply("s1")

SpecEngine == InitRead /\ [][NextEngine]_vars

\* getProjectBlueprint on every stored blueprint of the model
InitBlueprint ==
  /\ insights = <<>>
  /\ sessions = <<ForeignSession>>
  /\ decisions = <<>>
  /\ \E n \in {0, 1}, m \in {0, 1} :
       /\ dbConcepts = [d \in Dbs |-> ConceptList(n)]
       /\ dbPatterns = [d \in Dbs |-> IF m = 1 THEN <<"p1">> ELSE <<>>]
       /\ \E eps \in EntryPointLists, dirs \in KeyDirLists, fs \in FeatureLists :
            dbBlueprint = [d \in Dbs |->
              [entryPoints |-> eps, keyDirectories |-> dirs, featureMaps |-> fs]]
  /\ InitProcs

NextBlueprint ==
  \/ \E a \in BpInputs : BpStart("s1", a)
  \/ BpRead("s1")
  \/ BpStatus("s1")
  \/ BpFinally("s1")
  \/ Reply("s1")

SpecBlueprint == InitBlueprint /\ [][NextBlueprint]_vars

\* getProjectBlueprint called twice in succession with the same arguments:
\* the first response is held while the second request is served
InitTwice ==
  /\ insights = <<>>
  /\ sessions = <<ForeignSession>>
  /\ decisions = <<>>
  /\ dbPatterns = [d \in Dbs |-> <<>>]
  /\ \E n \in {0, 1} : dbConcepts = [d \in Dbs |-> ConceptList(n)]
  /\ \E eps \in {e \in EntryPointLists : Len(e) <= 1},
        dirs \in {k \in KeyDirLists : Len(k) <= 1}, fs \in FeatureLists :
       dbBlueprint = [d \in Dbs |->
         [entryPoints |-> eps, keyDirectories |-> dirs, featureMaps |-> fs]]
  /\ InitProcs

NextTwice ==
  \/ /\ pc["s2"] = "idle"
     /\ \E a \in BpInputs : BpStart("s1", a)
  \/ BpRead("s1")
  \/ BpStatus("s1")
  \/ BpFinally("s1")
  \/ /\ pc["s1"] = "done"
     /\ BpStart("s2", args["s1"])
  \/ BpRead("s2")
  \/ BpStatus("s2")
  \/ BpFinally("s2")
  \/ Reply("s2")
  \/ /\ pc["s2"] = "idle"
     /\ Reply("s1")

SpecTwice == InitTwice /\ [][NextTwice]_vars

\* the session of the working directory, left by an earlier contribution
OwnSession ==
  [id |-> NanoId(1), projectPath |-> Cwd, currentFiles |-> <<"a.ts", "b.ts">>,
   completedTasks |-> <<>>, pendingTasks |-> <<"t0">>, blockers |-> <<>>,
   lastFeature |-> Some("login")]

\* n decisions of the working directory after one of another project
StoredDecisions(n) ==
  [i \in 1..(n + 1) |->
     [id |-> <<"dec", i>>, projectPath |-> IF i = 1 THEN OtherProject ELSE Cwd,
      decisionKey |-> <<"k", i>>, decisionValue |-> <<"v", i>>,
      reasoning |-> IF i % 2 = 0 THEN Some("because") ELSE Absent]]

\* all the read operations, on a store that learning and contributions filled
InitQueries ==
  /\ insights = <<>>
  /\ sessions \in {<<ForeignSession>>, <<ForeignSession, OwnSession>>}
  /\ decisions \in {<<>>, StoredDecisions(DecisionsFetched + 2)}
  /\ dbConcepts = [d \in Dbs |-> ConceptList(Len(ConceptPool))]
  /\ \E n \in {0, 3, PreferredKept, ProfilePatternsFetched + 1} :
       dbPatterns = [d \in Dbs |-> [i \in 1..n |-> StoredPattern(i)]]
  /\ dbBlueprint = [d \in Dbs |-> LearnedBlueprint]
  /\ InitProcs

NextQueries ==
  \/ \E a \in ProfileInputs : GdpStart("s1", a)
  \/ GdpPatterns("s1")
  \/ GdpSession("s1")
  \/ GdpDecisions("s1")
  \/ GdpReturn("s1")
  \/ \E a \in ValidateInputs : Validate("s1", a)
  \/ NextRead
  \/ NextEngine

SpecQueries == InitQueries /\ [][NextQueries]_vars

(***************************************************************************)
(* Properties.                                                             *)
(***************************************************************************)
Done(p, op) == pc[p] = "done" /\ args[p].op = op

\* the handler ran (the request passed its schema)
Entered(p) == res[p] # ValidationError

\* number of rows of a table that belong to a project path
CountOf(tbl, projectPath) ==
  Cardinality({i \in 1..Len(tbl) : tbl[i].projectPath = projectPath})

\* every ad hoc handle of the request was closed, each exactly once
AllClosedOnce(p) ==
  \A h \in 1..Len(handles[p]) : ~handles[p][h].open /\ handles[p][h].closes = 1

\* C1: a request that supplies a path opens exactly one dedicated store handle
\* and has closed that handle exactly once by the time it completes, whether it
\* returns or throws; no ad hoc handle outlives its request.
C1_HandleScopedToRequest ==
  /\ leaked = 0
  /\ \A p \in Procs :
       (pc[p] # "idle" /\ args[p].op \in {"insights", "blueprint"}
          /\ TruthyString(args[p].path) /\ Entered(p))
       => /\ Len(handles[p]) = 1
          /\ pc[p] = "done" => AllClosedOnce(p)
          /\ pc[p] # "done" => handles[p][1].open

C1_Witness ==
  \E p \in Procs :
    /\ Done(p, "insights")
    /\ TruthyString(args[p].path)
    /\ res[p] = StoreError
    /\ Len(handles[p]) = 1 /\ AllClosedOnce(p)

\* C2 as stated: a request without a path, in getSemanticInsights and in
\* getProjectBlueprint alike, reads this.database, opens no dedicated store and
\* leaves this.database open.
C2_NoPathUsesDefaultStore ==
  /\ defaultOpen
  /\ \A p \in Procs :
       (pc[p] = "done" /\ args[p].op \in {"insights", "blueprint"}
          /\ ~TruthyString(args[p].path) /\ Entered(p))
       => /\ Len(handles[p]) = 0
          /\ loc[p].readFrom \in {<<>>, <<0>>}

\* C2 amended: without a path getSemanticInsights reads this.database and opens
\* no dedicated store; getProjectBlueprint without a path still opens one
\* dedicated store, reads from it and closes it; this.database is never closed.
C2_DefaultStoreNeverClosed ==
  /\ defaultOpen
  /\ \A p \in Procs :
       (pc[p] = "done" /\ ~TruthyString(args[p].path) /\ Entered(p))
       => /\ args[p].op = "insights"
               => Len(handles[p]) = 0 /\ loc[p].readFrom \in {<<>>, <<0>>}
          /\ args[p].op = "blueprint"
               => Len(handles[p]) = 1 /\ AllClosedOnce(p)
                  /\ loc[p].readFrom \in {<<>>, <<1>>}

C2_Witness ==
  \E p \in Procs :
    /\ Done(p, "insights")
    /\ args[p].path = Absent
    /\ res[p].kind = "returned"
    /\ loc[p].readFrom = <<0>>
    /\ Len(handles[p]) = 0
    /\ defaultOpen

\* a contribution with a session update that returned success
MergedOk(p) ==
  /\ Done(p, "contribute")
  /\ res[p].kind = "returned"
  /\ res[p].success
  /\ IsPresent(args[p].sessionUpdate)

\* the session of the working directory, in a table that holds exactly one
TheSession(tbl) == CHOOSE s \in SessionsOf(tbl, Cwd) : TRUE

\* C3: when a session already exists, a merge sets exactly the fields present
\* in the update (whatever their value) to the update's values and leaves
\* every other field of the session as it was.
C3_MergeSetsPresentFields ==
  \A p \in Procs :
    (MergedOk(p) /\ SessionsOf(pre[p].sessions, Cwd) # {})
    => LET u == Val(args[p].sessionUpdate)
           old == TheSession(pre[p].sessions)
           new == TheSession(sessions)
       IN /\ new.currentFiles = IF IsPresent(u.files) THEN Val(u.files) ELSE old.currentFiles
          /\ new.lastFeature = IF IsPresent(u.feature) THEN u.feature ELSE old.lastFeature
          /\ new.pendingTasks = IF IsPresent(u.tasks) THEN Val(u.tasks) ELSE old.pendingTasks
          /\ new.completedTasks = old.completedTasks
          /\ new.blockers = old.blockers
          /\ new.id = old.id
          /\ new.projectPath = old.projectPath

\* C4: with no session for the working directory, a successful contribution
\* that carries a session update creates exactly one session, seeded from the
\* update, with no completed tasks and no blockers; a contribution without a
\* session update creates no session.
C4_FirstUpdateCreatesSession ==
  \A p \in Procs :
    /\ (MergedOk(p) /\ SessionsOf(pre[p].sessions, Cwd) = {})
       => LET u == Val(args[p].sessionUpdate) IN
          /\ Len(sessions) = Len(pre[p].sessions) + 1
          /\ CountOf(sessions, Cwd) = 1
          /\ TheSession(sessions).currentFiles = (IF IsPresent(u.files) THEN Val(u.files) ELSE <<>>)
          /\ TheSession(sessions).pendingTasks = (IF IsPresent(u.tasks) THEN Val(u.tasks) ELSE <<>>)
          /\ TheSession(sessions).lastFeature = u.feature
          /\ TheSession(sessions).completedTasks = <<>>
          /\ TheSession(sessions).blockers = <<>>
    /\ (Done(p, "contribute") /\ ~IsPresent(args[p].sessionUpdate))
       => sessions = pre[p].sessions

C4_Witness ==
  \E p \in Procs :
    /\ MergedOk(p)
    /\ SessionsOf(pre[p].sessions, Cwd) = {}
    /\ Val(args[p].sessionUpdate).files = Some(<<"a.ts">>)
    /\ Val(args[p].sessionUpdate).feature = Some("login")
    /\ Val(args[p].sessionUpdate).tasks = Absent
    /\ CountOf(sessions, Cwd) = 1
    /\ TheSession(sessions).currentFiles = <<"a.ts">>
    /\ TheSession(sessions).lastFeature = Some("login")

\* C5: under any interleaving of contributions from several server processes,
\* at most one session exists for a project path.
C5_OneSessionPerPath ==
  \A path \in {Cwd, OtherProject} : CountOf(sessions, path) <= 1

\* an input the insight schema must reject: confidence outside [0,1], a kind
\* outside the four enumerated values, or a missing or empty sourceAgent
FailsInsightSchema(i) ==
  \/ i.confidence < 0
  \/ i.confidence > 10
  \/ i.type \notin {"bug_pattern", "optimization", "refactor_suggestion", "best_practice"}
  \/ i.sourceAgent = Absent
  \/ i.sourceAgent = Some("")

\* C6: a contribution whose input fails the insight schema ends in a
\* validation error and leaves insights, sessions and decisions as they were.
C6_InvalidInputPersistsNothing ==
  \A p \in Procs :
    (Done(p, "contribute") /\ FailsInsightSchema(args[p].insight))
    => /\ res[p] = ValidationError
       /\ insights = pre[p].insights
       /\ sessions = pre[p].sessions
       /\ decisions = pre[p].decisions

C6_Witness ==
  \E p \in Procs :
    /\ Done(p, "contribute")
    /\ args[p].insight.confidence = 15
    /\ IsPresent(args[p].sessionUpdate)
    /\ IsPresent(Val(args[p].sessionUpdate).decisions)
    /\ res[p] = ValidationError
    /\ Len(pre[p].insights) = 1
    /\ insights = pre[p].insights

\* the insight write of the call failed: the input was valid and no insight
\* was stored
InsertFailed(p) ==
  /\ Done(p, "contribute")
  /\ ~FailsInsightSchema(args[p].insight)
  /\ loc[p].insightId = EmptyId

\* C7: when the insight write fails after validation passed, the call returns
\* success=false with an empty insightId and a message instead of throwing,
\* and neither a session nor a decision is created or changed.
C7_InsertFailureIsStructured ==
  \A p \in Procs :
    InsertFailed(p)
    => /\ res[p].kind = "returned"
       /\ ~res[p].success
       /\ res[p].insightId = EmptyId
       /\ res[p].message # ""
       /\ insights = pre[p].insights
       /\ sessions = pre[p].sessions
       /\ decisions = pre[p].decisions
       /\ loc[p].upserts = <<>>

C7_Witness ==
  \E p \in Procs :
    /\ InsertFailed(p)
    /\ IsPresent(args[p].sessionUpdate)
    /\ IsPresent(Val(args[p].sessionUpdate).decisions)
    /\ res[p] = FailureResult
    /\ decisions = <<>>
    /\ CountOf(sessions, Cwd) = 0

\* C8: a call that returns success=true has stored exactly one new insight,
\* pending, with the validated fields, and returns its identifier; existing
\* insights are untouched; and once no call is in flight the number of stored
\* insights equals the number of successful calls.
C8_OneInsightPerSuccess ==
  /\ \A p \in Procs :
       (Done(p, "contribute") /\ res[p].kind = "returned" /\ res[p].success)
       => /\ res[p].insightId # EmptyId
          /\ Len(insights) = Len(pre[p].insights) + 1
          /\ SubSeq(insights, 1, Len(pre[p].insights)) = pre[p].insights
          /\ insights[Len(insights)] =
               [insightId |-> res[p].insightId,
                insightType |-> args[p].insight.type,
                insightContent |-> args[p].insight.content,
                confidenceScore |-> args[p].insight.confidence,
                sourceAgent |-> Val(args[p].insight.sourceAgent),
                validationStatus |-> "pending",
                impactPrediction |-> insights[Len(insights)].impactPrediction]
  /\ (\A p \in Procs : pc[p] \in {"idle", "done"}) => Len(insights) = succeeded

\* the keys of a decisions map, in order
KeysOf(entries) == [i \in 1..Len(entries) |-> entries[i][1]]

\* C9: in a contribution that returns success and whose session update has a
\* decisions map, every entry is upserted for the working directory, one
\* upsert per key, whether the session existed, was just created or received
\* no field update.
C9_EveryDecisionUpserted ==
  \A p \in Procs :
    (MergedOk(p) /\ IsPresent(Val(args[p].sessionUpdate).decisions))
    => LET entries == Val(Val(args[p].sessionUpdate).decisions) IN
       /\ loc[p].upserts = KeysOf(entries)
       /\ \A i \in 1..Len(entries) :
            \E j \in 1..Len(decisions) :
              /\ decisions[j].projectPath = Cwd
              /\ decisions[j].decisionKey = entries[i][1]
              /\ decisions[j].decisionValue = entries[i][2]

C9_Witness ==
  \E p \in Procs :
    /\ MergedOk(p)
    /\ SessionsOf(pre[p].sessions, Cwd) # {}
    /\ LET u == Val(args[p].sessionUpdate) IN
       /\ u.files = Absent /\ u.feature = Absent /\ u.tasks = Absent
       /\ IsPresent(u.decisions)
    /\ sessions = pre[p].sessions
    /\ loc[p].upserts = <<"k1", "k2">>
    /\ Len(decisions) = 2

\* the limit of a request: L, or 10 when L is omitted
RequestedLimit(a) == IF IsPresent(a.limit) THEN Val(a.limit) ELSE DefaultLimit

MatchIdx(cs, Keep(_)) == {i \in 1..Len(cs) : Keep(cs[i])}

\* the k-th smallest member of a set of positions
KthOf(S, k) == CHOOSE i \in S : Cardinality({j \in S : j <= i}) = k

\* the insight records of the first min(L, matches) retained concepts, in
\* store order
FirstMatches(cs, L, Keep(_)) ==
  LET S == MatchIdx(cs, Keep)
      n == IF L < Cardinality(S) THEN L ELSE Cardinality(S)
  IN [k \in 1..n |-> SemanticInsight(cs[KthOf(S, k)])]

\* the query is a case-insensitive substring of the concept name
QueryMatches(a, c) == Includes(ToLowerCase(c.conceptName), ToLowerCase(Val(a.query)))

\* retention as stated: the type filter is absent or equals the concept's type
RetainedTypeAbsentOrEqual(a, c) ==
  /\ a.conceptType = Absent \/ c.conceptType = Val(a.conceptType)
  /\ a.query = Absent \/ QueryMatches(a, c)

\* retention as coded: an empty type filter is no filter either
RetainedTypeEmptyOrEqual(a, c) ==
  /\ a.conceptType \in {Absent, Some("")} \/ c.conceptType = Val(a.conceptType)
  /\ a.query = Absent \/ QueryMatches(a, c)

ApproachReturned(p) ==
  LET pr == Val(loc[p].prediction) IN
  /\ res[p].approach = pr.approach
  /\ res[p].confidence = pr.confidence
  /\ res[p].reasoning = pr.reasoning
  /\ res[p].suggestedPatterns = pr.patterns
  /\ res[p].estimatedComplexity = pr.complexity

\* C12: when predictCodingApproach is called with includeFileRouting omitted or
\* true, the router is consulted once the prediction is there, and the response
\* contains fileRouting whenever the router yields a result; when the router
\* yields no result the field is absent (not null) and the approach fields are
\* still returned.
C12_RoutingIncludedByDefault ==
  \A p \in Procs :
    (Done(p, "predict") /\ args[p].includeFileRouting \in {Absent, Some(TRUE)}
       /\ IsPresent(loc[p].prediction))
    => /\ loc[p].calls = <<"predictApproach", "routeRequestToFiles">>
       /\ res[p].kind = "returned"
            => /\ ApproachReturned(p)
               /\ IF Val(loc[p].routing) = Null
                  THEN res[p].fileRouting = Absent
                  ELSE /\ IsPresent(res[p].fileRouting)
                       /\ \A f \in DOMAIN Val(res[p].fileRouting) :
                            Val(res[p].fileRouting)[f] = Val(loc[p].routing)[f]
                       /\ DOMAIN Val(res[p].fileRouting) =
                            {"intendedFeature", "targetFiles", "workType",
                             "suggestedStartPoint", "confidence", "reasoning"}

C12_Witness ==
  \E p \in Procs :
    /\ Done(p, "predict")
    /\ args[p].includeFileRouting = Absent
    /\ res[p].kind = "returned"
    /\ loc[p].routing = Some(Null)
    /\ res[p].fileRouting = Absent
    /\ res[p].approach = "extend the auth service"

\* C13: when predictCodingApproach is called with includeFileRouting explicitly
\* false, the response never contains fileRouting; whatever the toggle, every
\* call requests the approach prediction first, and every response carries its
\* approach, confidence, reasoning, suggested patterns and complexity.
C13_NoRoutingWhenFalse ==
  \A p \in Procs :
    (Done(p, "predict") /\ Entered(p))
    => /\ Len(loc[p].calls) >= 1 /\ loc[p].calls[1] = "predictApproach"
       /\ res[p].kind = "returned"
            => /\ ApproachReturned(p)
               /\ args[p].includeFileRouting = Some(FALSE) => res[p].fileRouting = Absent

C13_Witness ==
  \E p \in Procs :
    /\ Done(p, "predict")
    /\ args[p].includeFileRouting = Some(FALSE)
    /\ res[p].kind = "returned"
    /\ res[p].fileRouting = Absent
    /\ res[p].suggestedPatterns = <<"p1", "p2">>
    /\ loc[p].calls = <<"predictApproach">>


\* the code of the j-th example of a ranked pattern, empty when it has none
SourceCode(pattern, j) ==
  IF pattern.examples[j].code = Absent THEN <<>> ELSE Val(pattern.examples[j].code)

\* C14: for every pattern emitted by getPatternRecommendations at most 2
\* examples are present (the pattern's first ones) and each has at most 153
\* characters: an example of at most 150 characters is emitted unchanged, a
\* longer one as its first 150 characters followed by "...".
C14_ExamplesCappedAndTruncated ==
  \A p \in Procs :
    (Done(p, "patterns") /\ res[p].kind = "returned")
    => /\ Len(res[p].recommendations) = Len(loc[p].patterns)
       /\ \A i \in 1..Len(res[p].recommendations) :
            LET out == res[p].recommendations[i].examples
                pattern == loc[p].patterns[i]
            IN /\ Len(out) <= 2
               /\ Len(out) = IF Len(pattern.examples) < 2 THEN Len(pattern.examples) ELSE 2
               /\ \A j \in 1..Len(out) :
                    LET src == SourceCode(pattern, j) IN
                    /\ Len(out[j]) <= 153
                    /\ IF Len(src) <= 150 THEN out[j] = src
                       ELSE out[j] = SubSeq(src, 1, 150) \o <<".", ".", ".">>

C14_Witness ==
  \E p \in Procs :
    /\ Done(p, "patterns")
    /\ res[p].kind = "returned"
    /\ \E i \in 1..Len(res[p].recommendations) :
         LET out == res[p].recommendations[i].examples IN
         /\ Len(loc[p].patterns[i].examples) = 3
         /\ Len(out) = 2
         /\ Len(out[1]) = 150
         /\ Len(out[2]) = 153
         /\ SubSeq(out[2], 151, 153) = <<".", ".", ".">>
    /\ \E i \in 1..Len(res[p].recommendations) :
         LET out == res[p].recommendations[i].examples IN
         /\ Len(out) = 2
         /\ Len(out[1]) = 149
         /\ Len(out[2]) = 153

\* C15: getPatternRecommendations attaches relatedFiles, the collaborator's
\* file list for the ranked patterns, exactly when includeRelatedFiles is
\* requested; when it is not requested the field is absent (not an empty list)
\* and findFilesUsingPatterns is not called.
C15_RelatedFilesOnlyOnRequest ==
  \A p \in Procs :
    (Done(p, "patterns") /\ Entered(p))
    => /\ args[p].includeRelatedFiles # Some(TRUE)
            => "findFilesUsingPatterns" \notin Range(loc[p].calls)
       /\ res[p].kind = "returned"
            => IF args[p].includeRelatedFiles = Some(TRUE)
               THEN /\ loc[p].calls = <<"findRelevantPatterns", "findFilesUsingPatterns">>
                    /\ res[p].relatedFiles \in {Some(fs) : fs \in FileLists}
                    /\ res[p].relatedFiles = loc[p].files
               ELSE res[p].relatedFiles = Absent

C15_Witness ==
  \E p \in Procs :
    /\ Done(p, "patterns")
    /\ res[p].kind = "returned"
    /\ args[p].includeRelatedFiles = Some(TRUE)
    /\ res[p].relatedFiles = Some(<<>>)
    /\ Len(res[p].recommendations) = 2


\* the blueprint tables of the project the request reads
Stored(p) == dbBlueprint[DbFile(p)]

\* some stored entry point names a framework of the given flavour
Flavoured(p, word) ==
  \E i \in 1..Len(Stored(p).entryPoints) :
    LET fw == Stored(p).entryPoints[i].framework
    IN IsPresent(fw) /\ Includes(ToLowerCase(Val(fw)), word)

\* some stored key directory has the given type
HasDir(p, type) ==
  \E i \in 1..Len(Stored(p).keyDirectories) : Stored(p).keyDirectories[i].directoryType = type

ArchitectureLabels ==
  {"Component-Based (React)", "REST API (Express)", "REST API (FastAPI)",
   "Service-Oriented", "Component-Based", "MVC Pattern", "Modular"}

\* the label by the stated precedence
ArchitectureByPrecedence(p) ==
  CASE Flavoured(p, <<"r", "e", "a", "c", "t">>) -> "Component-Based (React)"
    [] ~Flavoured(p, <<"r", "e", "a", "c", "t">>)
       /\ Flavoured(p, <<"e", "x", "p", "r", "e", "s", "s">>) -> "REST API (Express)"
    [] OTHER ->
         IF Flavoured(p, <<"f", "a", "s", "t", "a", "p", "i">>) THEN "REST API (FastAPI)"
         ELSE IF HasDir(p, "services") THEN "Service-Oriented"
         ELSE IF HasDir(p, "components") THEN "Component-Based"
         ELSE IF HasDir(p, "models") /\ HasDir(p, "views") THEN "MVC Pattern"
         ELSE "Modular"

\* C16: the architecture label of a blueprint is the one the fixed precedence
\* gives for the stored frameworks and key directories: React-flavoured, else
\* Express-flavoured, else FastAPI-flavoured framework, else a "services"
\* directory, else a "components" directory, else "models" and "views"
\* directories, otherwise "Modular"; it is always one of the seven labels.
C16_ArchitectureByPrecedence ==
  \A p \in Procs :
    (Done(p, "blueprint") /\ res[p].kind = "returned")
    => /\ res[p].architecture = ArchitectureByPrecedence(p)
       /\ res[p].architecture \in ArchitectureLabels

C16_Witness ==
  \E p \in Procs :
    /\ Done(p, "blueprint")
    /\ res[p].kind = "returned"
    /\ HasDir(p, "services")
    /\ HasDir(p, "components")
    /\ Flavoured(p, <<"e", "x", "p", "r", "e", "s", "s">>)
    /\ Flavoured(p, <<"r", "e", "a", "c", "t">>)
    /\ res[p].architecture = "Component-Based (React)"
    /\ Len(res[p].techStack) = 2

\* the learning status was computed from reads that succeeded
StatusRead(p) == Done(p, "blueprint") /\ res[p].kind = "returned" /\ loc[p].faults = 0

\* a read of the learning status failed, after the blueprint rows were read
StatusReadFailed(p) ==
  Done(p, "blueprint") /\ loc[p].readFrom # <<>> /\ loc[p].faults > 0

\* C17: in the learning-status block of a blueprint, hasIntelligence is true
\* iff the stored concept count or pattern count is nonzero, isStale is false,
\* conceptsStored and patternsStored are those counts, and recommendation is
\* "ready" exactly when hasIntelligence and not stale, "learning_recommended"
\* otherwise.
C17_LearningStatusFromCounts ==
  \A p \in Procs :
    StatusRead(p)
    => LET nc == Len(dbConcepts[DbFile(p)])
           np == Len(dbPatterns[DbFile(p)])
           st == res[p].learningStatus
       IN /\ st.hasIntelligence <=> (nc # 0 \/ np # 0)
          /\ st.isStale = FALSE
          /\ st.conceptsStored = nc
          /\ st.patternsStored = np
          /\ st.recommendation = "ready" <=> (st.hasIntelligence /\ ~st.isStale)
          /\ st.recommendation \in {"ready", "learning_recommended"}

C17_Witness ==
  \E p \in Procs :
    /\ StatusRead(p)
    /\ Len(dbConcepts[DbFile(p)]) = 0
    /\ Len(dbPatterns[DbFile(p)]) = 1
    /\ res[p].learningStatus.hasIntelligence
    /\ res[p].learningStatus.recommendation = "ready"

\* the blueprint is complete and its status block is the safe default with
\* the given recommendation
DegradedBlueprint(p, recommendation) ==
  /\ res[p].kind = "returned"
  /\ res[p].architecture = ArchitectureByPrecedence(p)
  /\ DOMAIN res[p].entryPoints =
       {Stored(p).entryPoints[i].entryType : i \in 1..Len(Stored(p).entryPoints)}
  /\ DOMAIN res[p].keyDirectories =
       {Stored(p).keyDirectories[i].directoryType : i \in 1..Len(Stored(p).keyDirectories)}
  /\ \A i \in 1..Len(res[p].techStack) : Flavoured(p, ToLowerCase(res[p].techStack[i]))
  /\ res[p].learningStatus.hasIntelligence = FALSE
  /\ res[p].learningStatus.conceptsStored = 0
  /\ res[p].learningStatus.patternsStored = 0
  /\ res[p].learningStatus.recommendation = recommendation

\* C18 as stated: when reading concepts or patterns fails during the learning
\* status, getProjectBlueprint still returns a complete blueprint whose status
\* is hasIntelligence=false, zero counts and recommendation
\* "learning_recommended", the value reported when intelligence is absent.
C18_FallbackRecommendsLearning ==
  \A p \in Procs : StatusReadFailed(p) => DegradedBlueprint(p, "learning_recommended")

\* C18 amended: when reading concepts or patterns fails during the learning
\* status, getProjectBlueprint still returns a complete blueprint and raises
\* nothing; its status is hasIntelligence=false, zero counts and the
\* recommendation "learning_needed", a value of its own.
C18_FallbackLearningNeeded ==
  \A p \in Procs : StatusReadFailed(p) => DegradedBlueprint(p, "learning_needed")

C18_Witness ==
  \E p \in Procs :
    /\ StatusReadFailed(p)
    /\ Len(dbConcepts[DbFile(p)]) = 1
    /\ res[p].kind = "returned"
    /\ res[p].learningStatus.recommendation = "learning_needed"
    /\ res[p].architecture = "MVC Pattern"

\* C19: getProjectBlueprint treats includeFeatureMap as true by default: when
\* the flag is omitted or true and the project has a feature, the response has
\* a featureMap with every feature name mapped to its primary files; when the
\* flag is false or there is no feature, featureMap is absent.
C19_FeatureMapByDefault ==
  \A p \in Procs :
    (Done(p, "blueprint") /\ res[p].kind = "returned")
    => LET fs == Stored(p).featureMaps IN
       IF args[p].includeFeatureMap \in {Absent, Some(TRUE)} /\ fs # <<>>
       THEN /\ IsPresent(res[p].featureMap)
            /\ DOMAIN Val(res[p].featureMap) = {fs[i].featureName : i \in 1..Len(fs)}
            /\ \A n \in DOMAIN Val(res[p].featureMap) :
                 \E i \in 1..Len(fs) :
                   fs[i].featureName = n /\ Val(res[p].featureMap)[n] = fs[i].primaryFiles
       ELSE res[p].featureMap = Absent

\* two requests were answered with the same value
SameResponse(p, q) == res[p] = res[q]

TypeTags(patterns) ==
  [i \in 1..(IF Len(patterns) < 5 THEN Len(patterns) ELSE 5) |-> Some(patterns[i].patternType)]

\* C23: in getDeveloperProfile the recent-focus list is filled only when
\* includeRecentActivity is requested, and then it is the stored type tags of
\* the patterns classified as recent, in order, at most 5 of them.
C23_RecentFocusIsTypeTags ==
  \A p \in Procs :
    (Done(p, "profile") /\ res[p].kind = "returned")
    => res[p].recentFocus =
         IF args[p].includeRecentActivity = Some(TRUE)
         THEN TypeTags(RecentPatterns(loc[p].patterns, Now))
         ELSE <<>>

\* the decisions of the working directory
OwnDecisions == {i \in 1..Len(decisions) : decisions[i].projectPath = Cwd}

\* C24: getDeveloperProfile attaches currentWork iff includeWorkContext is
\* requested and a current session exists for the project; it then carries the
\* session's last feature, current files and pending tasks and at most 5 of
\* the project's decisions (key, value, reasoning); without a session the
\* field is absent even if decisions are stored.
C24_CurrentWorkIffSession ==
  \A p \in Procs :
    (Done(p, "profile") /\ res[p].kind = "returned")
    => /\ IsPresent(res[p].currentWork)
            <=> (args[p].includeWorkContext = Some(TRUE) /\ SessionsOf(sessions, Cwd) # {})
       /\ IsPresent(res[p].currentWork)
            => LET w == Val(res[p].currentWork)
                   s == TheSession(sessions)
               IN /\ w.lastFeature = s.lastFeature
                  /\ w.currentFiles = s.currentFiles
                  /\ w.pendingTasks = s.pendingTasks
                  /\ Len(w.recentDecisions) <= 5
                  /\ Len(w.recentDecisions) =
                       (IF Cardinality(OwnDecisions) < 5 THEN Cardinality(OwnDecisions) ELSE 5)
                  /\ \A k \in 1..Len(w.recentDecisions) :
                       \E i \in OwnDecisions :
                         /\ w.recentDecisions[k].key = decisions[i].decisionKey
                         /\ w.recentDecisions[k].value = decisions[i].decisionValue
                         /\ w.recentDecisions[k].reasoning = decisions[i].reasoning

C24_Witness ==
  \E p \in Procs :
    /\ Done(p, "profile")
    /\ res[p].kind = "returned"
    /\ IsPresent(res[p].currentWork)
    /\ Cardinality(OwnDecisions) > 5
    /\ Len(Val(res[p].currentWork).recentDecisions) = 5
    /\ Val(res[p].currentWork).currentFiles = <<"a.ts", "b.ts">>

\* C25: getDeveloperProfile classifies a pattern as recent iff its last-seen
\* time is within 30 days of the current time, now - lastSeen <= 30 * 24 h; a
\* pattern last seen 30 days and 12 hours ago is not recent.
C25_RecentWithinThirtyDays ==
  \A p \in Procs :
    (Done(p, "profile") /\ res[p].kind = "returned")
    => /\ \A i \in 1..Len(loc[p].patterns) :
            (loc[p].patterns[i] \in Range(RecentPatterns(loc[p].patterns, Now)))
              <=> (Now - loc[p].patterns[i].lastSeen <= 30 * 24)
       /\ args[p].includeRecentActivity = Some(TRUE)
            => LET n == Cardinality({i \in 1..Len(loc[p].patterns) :
                                       Now - loc[p].patterns[i].lastSeen <= 30 * 24})
               IN Len(res[p].recentFocus) = IF n < 5 THEN n ELSE 5


\* C21: a store or collaborator fault inside a public operation (as opposed
\* to a rejected input) never leaves the operation as a thrown error: every
\* finished request carries a returned result, degraded or not.
C21_InternalFaultsNeverEscape ==
  \A p \in Procs :
    (pc[p] = "done" /\ args[p].op # "validate" /\ Entered(p))
      => res[p].kind = "returned"


\* the collaborator operations a request has invoked so far, in order
Calls(p) == loc[p].calls

Times(p, name) == Cardinality({i \in DOMAIN Calls(p) : Calls(p)[i] = name})

Collaborators ==
  {"findRelevantPatterns", "findFilesUsingPatterns", "predictApproach", "routeRequestToFiles"}

\* C22: within one request every collaborator operation is invoked at most
\* once, and a collaborator failure ends the request: the failing call is the
\* last one, nothing is retried.
C22_CollaboratorsCalledOnce ==
  \A p \in Procs :
    /\ \A name \in Collaborators : Times(p, name) <= 1
    /\ res[p] = EngineError => pc[p] = "done"

\* a request whose prediction succeeded and whose routing call failed
C22_Witness ==
  /\ Done("s1", "predict")
  /\ res["s1"] = EngineError
  /\ Calls("s1") = <<"predictApproach", "routeRequestToFiles">>


\* C30: routeRequestToFiles is invoked only after predictApproach has
\* answered, and only when includeFileRouting is not explicitly false: a
\* request with the flag false, or one whose prediction failed, never
\* reaches the router.
C30_RouterOnlyAfterPrediction ==
  \A p \in Procs :
    (pc[p] = "pcaRoute" \/ Times(p, "routeRequestToFiles") > 0)
      => /\ IsPresent(loc[p].prediction)
         /\ Calls(p)[1] = "predictApproach"
         /\ args[p].includeFileRouting # Some(FALSE)

\* a request that asked for routing and got it, after its prediction
C30_Witness ==
  /\ Done("s1", "predict")
  /\ args["s1"].includeFileRouting = Some(TRUE)
  /\ res["s1"].kind = "returned"
  /\ IsPresent(res["s1"].fileRouting)
  /\ Calls("s1") = <<"predictApproach", "routeRequestToFiles">>


\* the fields of an insight that its schema rejects
FailingFields(i) ==
  {f \in {"type", "confidence", "sourceAgent"} :
     \/ f = "type" /\
          i.type \notin {"bug_pattern", "optimization", "refactor_suggestion", "best_practice"}
     \/ f = "confidence" /\ (i.confidence < 0 \/ i.confidence > 10)
     \/ f = "sourceAgent" /\ i.sourceAgent \in {Absent, Some("")}}

\* the message has an entry "<field>: <text>" for the field, after the
\* heading or after a ", "
Listed(message, field) ==
  \E k \in 3..(Len(message) - 3) :
    /\ message[k] \in {": ", ", "}
    /\ message[k + 1] = field
    /\ message[k + 2] = ": "
    /\ message[k + 3] # ""

\* C26: validateInput returns the parsed value when the input satisfies the
\* schema; when the schema rejects the input it raises an invalid-parameters
\* error whose message names the tool and lists every failing field as
\* "<field path>: <message>"; any other fault of the parse is raised as an
\* internal error; an error never comes with a value.
C26_ValidateInputOutcomes ==
  \A p \in Procs :
    Done(p, "validate") =>
      LET a == args[p]
          r == res[p]
      IN /\ (a.schema = "ContributeInsightsSchema" /\ FailingFields(a.input) = {})
              => r = [kind |-> "returned", value |-> a.input]
         /\ a.schema = "GetDeveloperProfileSchema"
              => /\ r.kind = "returned"
                 /\ r.value.includeRecentActivity = (a.input.includeRecentActivity # Some(FALSE))
         /\ (a.schema = "ContributeInsightsSchema" /\ FailingFields(a.input) # {})
              => /\ r.kind = "threw"
                 /\ r.error = "InvalidParams"
                 /\ SubSeq(r.message, 1, 3) = <<"Invalid input for ", a.toolName, ": ">>
                 /\ \A f \in FailingFields(a.input) : Listed(r.message, f)
         /\ a.schema = "undefined"
              => /\ r.kind = "threw"
                 /\ r.error = "InternalError"
                 /\ a.toolName \in {r.message[k] : k \in DOMAIN r.message}
         /\ r.kind = "threw" => "value" \notin DOMAIN r

\* an input with three failing fields was rejected
C26_Witness ==
  /\ Done("s1", "validate")
  /\ args["s1"].schema = "ContributeInsightsSchema"
  /\ Cardinality(FailingFields(args["s1"].input)) = 3
  /\ res["s1"].error = "InvalidParams"


\* C27: the read operations (getSemanticInsights, getPatternRecommendations,
\* predictCodingApproach, getDeveloperProfile, getProjectBlueprint) leave the
\* store as it was in every step they take, whether they end in a result or
\* in an error: insights, sessions, decisions, concepts, patterns and the
\* blueprint tables (entry points, key directories, feature maps).
C27_ReadsLeaveStoreUnchanged ==
  [][UNCHANGED <<insights, sessions, decisions, dbConcepts, dbPatterns, dbBlueprint>>]_vars

\* a profile request that found the session and then failed reading the
\* decisions, on a store that holds sessions, decisions and patterns
C27_Witness ==
  /\ Done("s1", "profile")
  /\ res["s1"] = StoreError
  /\ IsPresent(loc["s1"].session)
  /\ decisions # <<>>
  /\ sessions = pre["s1"].sessions
  /\ decisions = pre["s1"].decisions


\* C28: a contribution is all-or-nothing: whenever it answers success=false
\* (with an empty insightId), the store holds no insight written by that
\* call, also when the insight was written and a later step of the session
\* merge failed.
C28_FailureStoresNoInsight ==
  \A p \in Procs :
    (Done(p, "contribute") /\ res[p].kind = "returned" /\ ~res[p].success)
      => /\ res[p].insightId = EmptyId
         /\ \A i \in DOMAIN insights : insights[i].insightId # loc[p].insightId


\* p's update names only files, q's only tasks, and the working directory had
\* its session when each of the two calls began
DisjointUpdates(p, q) ==
  /\ MergedOk(p)
  /\ MergedOk(q)
  /\ CountOf(pre[p].sessions, Cwd) = 1
  /\ CountOf(pre[q].sessions, Cwd) = 1
  /\ IsPresent(Val(args[p].sessionUpdate).files)
  /\ Val(args[p].sessionUpdate).tasks = Absent
  /\ Val(args[p].sessionUpdate).feature = Absent
  /\ IsPresent(Val(args[q].sessionUpdate).tasks)
  /\ Val(args[q].sessionUpdate).files = Absent
  /\ Val(args[q].sessionUpdate).feature = Absent

\* C29: two contributions for the same project path whose session updates
\* touch disjoint fields of an existing session (one only files, the other
\* only tasks) both take effect, however their steps interleave: the session
\* ends with the files of the first and the tasks of the second.
C29_DisjointUpdatesBothApply ==
  \A p \in Procs, q \in Procs :
    DisjointUpdates(p, q)
      => /\ CountOf(sessions, Cwd) = 1
         /\ TheSession(sessions).currentFiles = Val(Val(args[p].sessionUpdate).files)
         /\ TheSession(sessions).pendingTasks = Val(Val(args[q].sessionUpdate).tasks)

\* the two calls overlapped: neither had stored its insight when the other began
C29_Witness ==
  /\ DisjointUpdates("s1", "s2")
  /\ pre["s1"].insights = pre["s2"].insights
  /\ TheSession(pre["s1"].sessions).pendingTasks = <<>>

====
